---- MODULE Spec2Model ----
(***************************************************************************)
(* Model of the data-quality pipeline of legal-scraper:                    *)
(*   quality/dedup.py      ContentFingerprinter, DuplicateDetector         *)
(*   quality/validator.py  FieldSpec, DEFAULT_CASE_SCHEMA, CaseValidator   *)
(*                                                                         *)
(* Representation.                                                         *)
(*  - A Python str is a sequence of one-character strings.                 *)
(*  - A Python int that is a hash or a fingerprint is kept either as its   *)
(*    little-endian base-2^16 digits (an MD5 digest) or as the set of its  *)
(*    set bit positions (a fingerprint): 0 is {}, a | (1 << i) is          *)
(*    a \cup {i}, a ^ b is the symmetric difference.                       *)
(*  - A float is an exact rational <<numerator, denominator>>; every       *)
(*    float the modelled code computes from the modelled inputs is either  *)
(*    a dyadic 1 - d/hash_bits (exact in binary) or only compared.         *)
(*  - A dict is the sequence of its <<key, value>> items in insertion      *)
(*    order (Python dicts iterate in insertion order, and assigning to an  *)
(*    existing key keeps its position).                                    *)
(***************************************************************************)
EXTENDS Integers, Sequences, FiniteSets, TLC

VARIABLES
    fingerprinter,   \* a ContentFingerprinter: [hash_bits, ngram_size, normalize]
    fpArg,           \* the text handed to ContentFingerprinter.fingerprint
    fpRet,           \* what the last ContentFingerprinter.fingerprint call returned
    simArgs,         \* the two fingerprints handed to ContentFingerprinter.similarity
    simRet,          \* what the last ContentFingerprinter.similarity call returned
    threshold,       \* DuplicateDetector.threshold
    fingerprints,    \* DuplicateDetector._fingerprints
    exact_hashes,    \* DuplicateDetector._exact_hashes
    cases,           \* DuplicateDetector._cases
    ret,             \* what the last DuplicateDetector call returned or raised
    query,           \* the last DuplicateDetector call, if it was a query or a
                     \* clear: [op, case_id, top_k], [op, dropped] for a clear
                     \* of an index of so many cases
    heap,            \* the list objects schemas are held in, by reference
    validators,      \* the CaseValidator objects: [schema, strict, _field_map]
    case,            \* the record handed to CaseValidator.validate
    vret,            \* what the last CaseValidator call returned or raised
    call,            \* the last CaseValidator call: [op, self]
    results,         \* the ValidationResults handed to QualityReporter.analyze_results
    report,          \* what the last QualityReporter call returned
    files,           \* the *.json files of cases_dir, in the order glob yields them
    scraper,         \* the Scraper: daily_limit, request_count, and its adapter
    storage,         \* the Storage of the scraper: its progress
    coreCall,        \* the last call on the Scraper or the Storage
    coreRet          \* what that call returned

vars == <<fingerprinter, fpArg, fpRet, simArgs, simRet, threshold, fingerprints, exact_hashes, cases, ret, query,
          heap, validators, case, vret, call, results, report, files,
          scraper, storage, coreCall, coreRet>>

fpVars == <<fingerprinter, fpArg, fpRet, simArgs, simRet>>
detVars == <<threshold, fingerprints, exact_hashes, cases, ret, query>>
valVars == <<heap, validators, case, vret, call>>
repVars == <<results, report, files>>
coreVars == <<scraper, storage, coreCall, coreRet>>

(***************************************************************************)
(* Bounds of the model.                                                    *)
(***************************************************************************)
\* longest text handed to ContentFingerprinter.fingerprint on its own
MaxTextLen == 5

\* the characters texts are made of: a lower-case letter, an upper-case
\* letter, a whitespace character and a punctuation character
Chars == {"a", "B", " ", "!"}

RECURSIVE StringsUpTo(_)
StringsUpTo(n) ==
    IF n = 0 THEN {<<>>}
    ELSE LET shorter == StringsUpTo(n - 1)
         IN  shorter \cup {Append(s, c) : s \in {t \in shorter : Len(t) = n - 1}, c \in Chars}

Min(a, b) == IF a <= b THEN a ELSE b
Max(a, b) == IF a >= b THEN a ELSE b

(***************************************************************************)
(* Python dicts, in insertion order.                                       *)
(***************************************************************************)
DictKeys(d) == [i \in 1..Len(d) |-> d[i][1]]
DictKeySet(d) == {d[i][1] : i \in 1..Len(d)}
DictHas(d, k) == k \in DictKeySet(d)
DictGet(d, k) == d[CHOOSE i \in 1..Len(d) : d[i][1] = k][2]
DictSet(d, k, v) ==
    IF DictHas(d, k)
    THEN [i \in 1..Len(d) |-> IF d[i][1] = k THEN <<k, v>> ELSE d[i]]
    ELSE Append(d, <<k, v>>)

(***************************************************************************)
(* hashlib.md5 of the shingles the modelled texts can produce: the real    *)
(* digests, as little-endian base-2^16 digits of int(hexdigest, 16).       *)
(***************************************************************************)
MD5_DIGESTS ==
    (<<"a">> :> <<9825,26999,39394,12739,46760,49393,30137,3265>>)
    @@ (<<"b">> :> <<22415,30001,7287,15063,12268,59054,24574,37611>>)
    @@ (<<"B">> :> <<46449,31482,16533,24833,48330,65111,54904,40286>>)
    @@ (<<" ">> :> <<60511,59545,6720,53906,49705,32157,61084,29205>>)
    @@ (<<"!">> :> <<51379,30792,3340,50120,18368,1522,57571,36915>>)
    @@ (<<"a","a">> :> <<18706,8314,9402,2159,49791,37685,48138,16676>>)
    @@ (<<"a","b">> :> <<60320,37616,56363,12096,53708,24866,62531,6270>>)
    @@ (<<"a","B">> :> <<34542,42152,6981,39246,33040,16841,7994,2075>>)
    @@ (<<"a"," ">> :> <<31747,49845,50780,55559,12856,19409,3250,39170>>)
    @@ (<<"a","!">> :> <<24835,37348,37466,6018,58398,561,41828,42093>>)
    @@ (<<"b","a">> :> <<22212,18440,50189,20409,6574,60955,40007,1813>>)
    @@ (<<"b","b">> :> <<36476,19497,25611,62671,3336,14009,3032,8621>>)
    @@ (<<"b","B">> :> <<11529,26774,48499,30181,1406,45318,31215,45605>>)
    @@ (<<"b"," ">> :> <<32136,14297,48758,37720,8631,38805,34130,64504>>)
    @@ (<<"b","!">> :> <<42294,37360,16310,65077,48688,28133,57352,6757>>)
    @@ (<<"B","a">> :> <<61602,64984,64095,2575,46322,42976,17414,46538>>)
    @@ (<<"B","b">> :> <<11555,28981,11140,38926,7758,61292,61896,54566>>)
    @@ (<<"B","B">> :> <<52199,13848,59710,58681,42990,56086,36936,40253>>)
    @@ (<<"B"," ">> :> <<34094,56852,16627,55657,22809,25008,63569,2375>>)
    @@ (<<"B","!">> :> <<32910,26374,43247,16232,33829,40366,49703,17916>>)
    @@ (<<" ","a">> :> <<50213,1002,39180,60005,55538,38907,35034,38185>>)
    @@ (<<" ","b">> :> <<62599,62356,28580,24581,20702,56758,28787,63113>>)
    @@ (<<" ","B">> :> <<46939,52551,9990,60144,54056,54194,47876,17058>>)
    @@ (<<" "," ">> :> <<34479,20831,5890,54069,22311,4532,36335,9141>>)
    @@ (<<" ","!">> :> <<5945,59046,4041,54617,60122,10371,7205,8716>>)
    @@ (<<"!","a">> :> <<62035,22034,54476,48660,18299,34163,3846,55962>>)
    @@ (<<"!","b">> :> <<25578,13227,21639,64860,45354,371,612,60311>>)
    @@ (<<"!","B">> :> <<45476,32266,31264,10166,3080,58114,13097,47529>>)
    @@ (<<"!"," ">> :> <<7614,2210,10805,60058,45468,30126,39037,42400>>)
    @@ (<<"!","!">> :> <<13788,59265,54761,11260,4273,15950,52661,61343>>)
    @@ (<<"a","a","a">> :> <<63496,40105,54654,26587,40776,20312,58823,18364>>)
    @@ (<<"a","a","b">> :> <<39996,6838,34766,15788,34069,39093,38382,58917>>)
    @@ (<<"a","a","B">> :> <<19458,8037,61990,23312,49986,36110,62229,1043>>)
    @@ (<<"a","a"," ">> :> <<27450,40329,30624,33550,11464,9036,13782,57616>>)
    @@ (<<"a","a","!">> :> <<46682,31810,64031,51750,46695,43606,40989,40512>>)
    @@ (<<"a","b","a">> :> <<39466,24856,10106,23515,38393,15810,34674,31151>>)
    @@ (<<"a","b","b">> :> <<20740,3756,52690,33370,34866,36429,58877,59905>>)
    @@ (<<"a","b","B">> :> <<49065,29480,2396,20631,32167,9568,11651,65175>>)
    @@ (<<"a","b"," ">> :> <<25713,49721,9228,31118,49986,5868,51503,46108>>)
    @@ (<<"a","b","!">> :> <<38957,31323,27898,64277,10286,17137,25185,55303>>)
    @@ (<<"a","B","a">> :> <<53214,40241,8876,32852,38577,10042,3230,61855>>)
    @@ (<<"a","B","b">> :> <<11489,20124,26975,26153,42105,4320,12782,52266>>)
    @@ (<<"a","B","B">> :> <<14701,10542,15676,17933,22887,21490,2746,64938>>)
    @@ (<<"a","B"," ">> :> <<11060,19659,52992,42744,13357,42550,38876,6059>>)
    @@ (<<"a","B","!">> :> <<63770,35715,5559,59046,39530,16304,24430,22564>>)
    @@ (<<"a"," ","a">> :> <<43184,2100,30131,36971,60158,19945,43449,7101>>)
    @@ (<<"a"," ","b">> :> <<39600,6603,41176,46709,20791,53868,52557,3273>>)
    @@ (<<"a"," ","B">> :> <<39462,43997,38068,62312,19164,62427,13164,52591>>)
    @@ (<<"a"," "," ">> :> <<52420,30096,14248,23370,3552,50195,820,54444>>)
    @@ (<<"a"," ","!">> :> <<13522,8695,49918,54242,27792,7324,53418,39123>>)
    @@ (<<"a","!","a">> :> <<193,45373,32511,33846,33407,42593,18590,51430>>)
    @@ (<<"a","!","b">> :> <<59176,56435,36137,46546,22039,31071,7741,55962>>)
    @@ (<<"a","!","B">> :> <<17795,10248,13871,24117,44729,56414,53792,10116>>)
    @@ (<<"a","!"," ">> :> <<21956,32866,24454,31240,5194,59782,4806,54383>>)
    @@ (<<"a","!","!">> :> <<35919,56610,58679,43809,38525,38629,61340,1429>>)
    @@ (<<"b","a","a">> :> <<2752,11,7322,27761,26282,43228,55929,36060>>)
    @@ (<<"b","a","b">> :> <<5629,45213,43547,8614,30641,49809,56285,55767>>)
    @@ (<<"b","a","B">> :> <<62327,31262,30018,28279,63029,12277,29887,9231>>)
    @@ (<<"b","a"," ">> :> <<30889,9012,35207,41333,16314,45686,476,39657>>)
    @@ (<<"b","a","!">> :> <<60311,5782,28325,8298,27141,60646,57681,43436>>)
    @@ (<<"b","b","a">> :> <<44071,43791,9414,2469,31826,16897,5632,64581>>)
    @@ (<<"b","b","b">> :> <<58829,1774,64299,4302,16773,3172,57382,2296>>)
    @@ (<<"b","b","B">> :> <<48528,49606,48691,18902,56512,3903,39943,39331>>)
    @@ (<<"b","b"," ">> :> <<57746,9791,43888,24241,54280,23189,9495,39017>>)
    @@ (<<"b","b","!">> :> <<46578,4471,47662,63227,57915,13591,60088,65530>>)
    @@ (<<"b","B","a">> :> <<8934,29950,26951,50139,36490,4942,61730,41648>>)
    @@ (<<"b","B","b">> :> <<41365,43102,57212,62349,1740,60966,29217,56327>>)
    @@ (<<"b","B","B">> :> <<56761,21435,47169,64508,27658,41264,1803,25291>>)
    @@ (<<"b","B"," ">> :> <<51859,31668,50398,51133,43924,8019,65481,32773>>)
    @@ (<<"b","B","!">> :> <<31880,33886,2028,58170,36820,20407,20375,46868>>)
    @@ (<<"b"," ","a">> :> <<10179,6891,442,23786,51439,54886,24712,8851>>)
    @@ (<<"b"," ","b">> :> <<28591,61970,37120,64967,28511,8218,58700,36646>>)
    @@ (<<"b"," ","B">> :> <<33845,31318,34261,54227,64598,60418,6821,6828>>)
    @@ (<<"b"," "," ">> :> <<28251,44416,61223,24671,45220,17208,28496,22815>>)
    @@ (<<"b"," ","!">> :> <<61286,23669,52764,60950,23439,19773,2973,57224>>)
    @@ (<<"b","!","a">> :> <<5696,55944,59823,12622,51002,31638,54996,4981>>)
    @@ (<<"b","!","b">> :> <<22742,48562,51047,34002,10219,11970,60482,27701>>)
    @@ (<<"b","!","B">> :> <<40070,4842,9666,11013,61370,9019,34050,27201>>)
    @@ (<<"b","!"," ">> :> <<44588,25729,43632,47,3170,40938,8186,12293>>)
    @@ (<<"b","!","!">> :> <<52830,63286,54114,38435,3931,40543,12581,26159>>)
    @@ (<<"B","a","a">> :> <<5427,34693,56452,46410,15761,19764,32237,27748>>)
    @@ (<<"B","a","b">> :> <<133,46955,52941,35525,1446,41789,64953,13514>>)
    @@ (<<"B","a","B">> :> <<56139,12656,7477,49414,53316,1261,16529,37852>>)
    @@ (<<"B","a"," ">> :> <<1317,18141,2924,17504,10444,7674,9225,6289>>)
    @@ (<<"B","a","!">> :> <<47932,14634,64841,45221,61104,64597,7125,41663>>)
    @@ (<<"B","b","a">> :> <<39173,48477,57010,30127,12575,51507,19960,35939>>)
    @@ (<<"B","b","b">> :> <<47445,29202,48706,39572,44376,1875,43835,28234>>)
    @@ (<<"B","b","B">> :> <<4016,38864,8097,60964,28294,47874,32201,22258>>)
    @@ (<<"B","b"," ">> :> <<55239,52154,5922,62792,39948,28873,65465,53336>>)
    @@ (<<"B","b","!">> :> <<61548,45886,25821,36323,28057,46607,24613,10325>>)
    @@ (<<"B","B","a">> :> <<46836,64439,56149,6495,30768,30813,53588,42291>>)
    @@ (<<"B","B","b">> :> <<43683,8498,51327,63147,40175,59427,35760,28291>>)
    @@ (<<"B","B","B">> :> <<55715,60759,43112,1879,22675,47770,9712,11186>>)
    @@ (<<"B","B"," ">> :> <<13242,62301,2679,34934,6050,50048,57639,57232>>)
    @@ (<<"B","B","!">> :> <<40959,57409,42005,29956,43690,56345,18417,37812>>)
    @@ (<<"B"," ","a">> :> <<12703,15156,16534,5553,62353,19137,8362,16598>>)
    @@ (<<"B"," ","b">> :> <<59802,48027,9514,553,8753,40032,61106,9588>>)
    @@ (<<"B"," ","B">> :> <<38114,13790,39209,10804,36064,29476,59214,8483>>)
    @@ (<<"B"," "," ">> :> <<46913,313,42405,34810,18260,14343,35080,9123>>)
    @@ (<<"B"," ","!">> :> <<5837,51643,59345,41355,65219,55527,43231,43659>>)
    @@ (<<"B","!","a">> :> <<39020,64282,62677,39535,24252,120,54906,34013>>)
    @@ (<<"B","!","b">> :> <<35271,60617,4451,39754,15166,37648,54835,19462>>)
    @@ (<<"B","!","B">> :> <<2882,34636,65360,18255,22917,15894,42229,41653>>)
    @@ (<<"B","!"," ">> :> <<4118,59411,45475,24722,56725,29672,53353,34805>>)
    @@ (<<"B","!","!">> :> <<65258,42103,17579,14538,20606,47525,56619,41288>>)
    @@ (<<" ","a","a">> :> <<12629,21382,17863,28871,58571,16759,55246,60264>>)
    @@ (<<" ","a","b">> :> <<46385,54903,50855,11505,4264,3315,57290,44082>>)
    @@ (<<" ","a","B">> :> <<59549,4718,21287,40695,25381,61572,163,14448>>)
    @@ (<<" ","a"," ">> :> <<28483,12866,13825,56044,61395,39447,14064,58519>>)
    @@ (<<" ","a","!">> :> <<35239,60783,63397,60102,55518,10687,49689,18942>>)
    @@ (<<" ","b","a">> :> <<2889,20143,57227,7799,6424,49634,40372,10459>>)
    @@ (<<" ","b","b">> :> <<23715,17022,41923,6700,48094,43060,21597,54224>>)
    @@ (<<" ","b","B">> :> <<2412,56951,41470,50637,36516,36407,5444,13084>>)
    @@ (<<" ","b"," ">> :> <<16674,40732,58146,49787,8032,22896,9492,12317>>)
    @@ (<<" ","b","!">> :> <<34715,18120,34022,45711,53319,63272,28904,62512>>)
    @@ (<<" ","B","a">> :> <<52163,49140,51828,10903,10401,25983,29455,33453>>)
    @@ (<<" ","B","b">> :> <<57142,41520,23017,12794,42802,47566,23197,55822>>)
    @@ (<<" ","B","B">> :> <<44801,40333,42620,54340,47476,35206,62708,58367>>)
    @@ (<<" ","B"," ">> :> <<3546,25117,56631,42983,8643,9988,38993,29628>>)
    @@ (<<" ","B","!">> :> <<52081,1749,51266,22136,44423,1913,17088,46337>>)
    @@ (<<" "," ","a">> :> <<30813,40366,18286,6626,15541,10719,36936,30903>>)
    @@ (<<" "," ","b">> :> <<2554,44868,2927,40015,50969,65285,53056,59483>>)
    @@ (<<" "," ","B">> :> <<51486,5792,816,3788,46857,11806,13744,58857>>)
    @@ (<<" "," "," ">> :> <<24091,3205,27680,35863,45613,29473,12784,25222>>)
    @@ (<<" "," ","!">> :> <<12826,1982,38852,7333,62208,23018,39716,19605>>)
    @@ (<<" ","!","a">> :> <<13979,32753,4734,40545,11958,43868,2287,10100>>)
    @@ (<<" ","!","b">> :> <<34370,4756,18476,57688,41953,5993,15015,31857>>)
    @@ (<<" ","!","B">> :> <<15105,34719,39668,60269,40378,63508,48075,53199>>)
    @@ (<<" ","!"," ">> :> <<48669,1659,50696,64908,12982,499,44319,59240>>)
    @@ (<<" ","!","!">> :> <<61626,39982,4603,14896,36799,51099,36370,2704>>)
    @@ (<<"!","a","a">> :> <<19725,15765,65111,35334,27750,47460,49624,46706>>)
    @@ (<<"!","a","b">> :> <<39746,55229,32135,52329,5271,7208,26124,46614>>)
    @@ (<<"!","a","B">> :> <<57196,52625,17923,11482,11922,39589,35021,30235>>)
    @@ (<<"!","a"," ">> :> <<18734,47224,7640,41816,28169,3447,33836,33342>>)
    @@ (<<"!","a","!">> :> <<19371,16913,61658,63577,22354,22914,42787,62250>>)
    @@ (<<"!","b","a">> :> <<39108,36260,36327,64133,46896,43691,63917,32717>>)
    @@ (<<"!","b","b">> :> <<41950,1732,43998,63534,31515,1533,40025,11925>>)
    @@ (<<"!","b","B">> :> <<50192,51007,58734,56117,35235,55504,7946,28231>>)
    @@ (<<"!","b"," ">> :> <<35469,35298,20590,62184,48181,11441,9324,25842>>)
    @@ (<<"!","b","!">> :> <<9409,4362,19320,36897,15567,57534,9641,29397>>)
    @@ (<<"!","B","a">> :> <<63890,19961,9292,60776,25086,16708,57792,41300>>)
    @@ (<<"!","B","b">> :> <<14461,49475,61540,23920,13543,57264,43703,8578>>)
    @@ (<<"!","B","B">> :> <<32898,8789,13003,65497,62022,11750,42116,20797>>)
    @@ (<<"!","B"," ">> :> <<24256,23214,42791,38783,49295,19166,53571,57739>>)
    @@ (<<"!","B","!">> :> <<63840,45340,50126,57986,3868,1371,57264,2838>>)
    @@ (<<"!"," ","a">> :> <<17538,65005,29957,12052,54574,30360,4630,8206>>)
    @@ (<<"!"," ","b">> :> <<64913,11332,24082,43546,12414,53388,32411,17629>>)
    @@ (<<"!"," ","B">> :> <<47942,28772,9720,42445,13989,57728,20209,44427>>)
    @@ (<<"!"," "," ">> :> <<31991,52287,61333,49,5935,56739,32502,11872>>)
    @@ (<<"!"," ","!">> :> <<22696,15076,25881,55511,65314,59371,1424,23434>>)
    @@ (<<"!","!","a">> :> <<32907,34298,12875,43597,53934,42577,56214,35732>>)
    @@ (<<"!","!","b">> :> <<61287,65009,55631,4622,14340,17446,17835,11063>>)
    @@ (<<"!","!","B">> :> <<55057,1662,42428,55759,37017,44143,12266,18613>>)
    @@ (<<"!","!"," ">> :> <<44062,40700,28098,52965,8618,19687,48553,47156>>)
    @@ (<<"!","!","!">> :> <<50682,43517,15931,32542,43630,28415,30037,28112>>)

md5_int(shingle) == MD5_DIGESTS[shingle]

\* hashlib.sha256(text).hexdigest(): distinct texts get distinct digests
sha256(text) == <<"sha256", text>>

(***************************************************************************)
(* ContentFingerprinter                                                    *)
(***************************************************************************)
HASH_BITS_ALLOWED == {64, 128}

\* str.lower()
lower(text) == [i \in 1..Len(text) |-> IF text[i] = "B" THEN "b" ELSE text[i]]

IsSpace(c) == c = " "
IsWord(c) == c \in {"a", "b", "B"}

\* re.sub(r"\s+", " ", text)
RECURSIVE collapse_whitespace(_)
collapse_whitespace(text) ==
    IF text = <<>> THEN <<>>
    ELSE IF IsSpace(Head(text))
         THEN IF Len(text) > 1 /\ IsSpace(text[2])
              THEN collapse_whitespace(Tail(text))
              ELSE <<" ">> \o collapse_whitespace(Tail(text))
         ELSE <<Head(text)>> \o collapse_whitespace(Tail(text))

\* re.sub(r"[^\w\s]", "", text)
remove_punctuation(text) == SelectSeq(text, LAMBDA c : IsWord(c) \/ IsSpace(c))

\* str.strip()
RECURSIVE lstrip(_)
lstrip(text) ==
    IF text # <<>> /\ IsSpace(Head(text)) THEN lstrip(Tail(text)) ELSE text

RECURSIVE rstrip(_)
rstrip(text) ==
    IF text # <<>> /\ IsSpace(text[Len(text)])
    THEN rstrip(SubSeq(text, 1, Len(text) - 1))
    ELSE text

strip(text) == rstrip(lstrip(text))

_normalize(text) == strip(remove_punctuation(collapse_whitespace(lower(text))))

\* text[i : i + n] for a 0-based i, clipped to the text as a Python slice is
slice(text, i, n) == SubSeq(text, i + 1, Min(i + n, Len(text)))

_shingle(self, text) ==
    IF Len(text) < self.ngram_size
    THEN <<text>>
    ELSE [k \in 1..(Len(text) - self.ngram_size + 1) |-> slice(text, k - 1, self.ngram_size)]

\* int(h, 16) % (2 ** hash_bits): the low hash_bits bits
_hash_shingle(self, shingle) == SubSeq(md5_int(shingle), 1, self.hash_bits \div 16)

\* h & (1 << i), for an h of any width
BitSet(h, i) ==
    /\ (i \div 16) + 1 <= Len(h)
    /\ (h[(i \div 16) + 1] \div (2 ^ (i % 16))) % 2 = 1

\* the inner loop of fingerprint: one shingle's hash added to the vector
add_to_vector(self, vector, h) ==
    [i \in 0..(self.hash_bits - 1) |-> IF BitSet(h, i) THEN vector[i] + 1 ELSE vector[i] - 1]

RECURSIVE accumulate(_, _, _)
accumulate(self, shingles, vector) ==
    IF shingles = <<>> THEN vector
    ELSE accumulate(self, Tail(shingles),
                    add_to_vector(self, vector, _hash_shingle(self, Head(shingles))))

\* a last loop that also sets the bits whose weight is zero
to_fingerprint_ge(self, vector) == {i \in 0..(self.hash_bits - 1) : vector[i] >= 0}

\* the last loop of fingerprint: bit i is set where the vector is positive
to_fingerprint(self, vector) == {i \in 0..(self.hash_bits - 1) : vector[i] > 0}

fingerprint(self, text) ==
    LET t == IF self.normalize THEN _normalize(text) ELSE text
    IN  IF t = <<>> THEN {}
        ELSE LET shingles == _shingle(self, t)
             IN  IF shingles = <<>> THEN {}
                 ELSE to_fingerprint(self,
                          accumulate(self, shingles, [i \in 0..(self.hash_bits - 1) |-> 0]))

\* the bits set in either, were they counted and not the bits of the xor
differing_bits_of_both(hash_a, hash_b) == Cardinality(hash_a) + Cardinality(hash_b)

\* bin(hash_a ^ hash_b).count("1")
differing_bits(hash_a, hash_b) == Cardinality((hash_a \ hash_b) \cup (hash_b \ hash_a))

\* similarity, were a fingerprint of 0 not told from the others
similarity_without_zero_rule(self, hash_a, hash_b) ==
    <<self.hash_bits - differing_bits(hash_a, hash_b), self.hash_bits>>

\* the rational 1.0 - differing_bits / hash_bits, as <<numerator, denominator>>
similarity(self, hash_a, hash_b) ==
    IF hash_a = {} /\ hash_b = {} THEN <<1, 1>>
    ELSE IF hash_a = {} \/ hash_b = {} THEN <<0, 1>>
    ELSE <<self.hash_bits - differing_bits(hash_a, hash_b), self.hash_bits>>

\* comparisons of rationals with positive denominators
RatGe(a, b) == a[1] * b[2] >= b[1] * a[2]
RatGt(a, b) == a[1] * b[2] > b[1] * a[2]
RatEq(a, b) == a[1] * b[2] = b[1] * a[2]

(***************************************************************************)
(* Values of a case record: a key holds text, None, or is not in the dict. *)
(***************************************************************************)
\* what a call returned: None (also before any call), a value, or a raise
NoCall == [kind |-> "none"]
Returned(value) == [kind |-> "value", value |-> value]
Raised == [kind |-> "raise"]

\* no CaseValidator in play
ValidatorIdle ==
    /\ heap = <<>>
    /\ validators = <<>>
    /\ case = <<>>
    /\ vret = NoCall
    /\ call = [op |-> "none"]

\* no QualityReporter in play
ReporterIdle ==
    /\ results = <<>>
    /\ report = NoCall
    /\ files = <<>>

Str(s) == [kind |-> "str", s |-> s]
NoneValue == [kind |-> "none"]
Absent == [kind |-> "absent"]

\* the ids cases are indexed under, and Python's order on them (str < str)
Ids == {"a", "b", "c"}
IdRank == ("a" :> 1) @@ ("b" :> 2) @@ ("c" :> 3)
str_min(x, y) == IF IdRank[x] <= IdRank[y] THEN x ELSE y
str_max(x, y) == IF IdRank[x] >= IdRank[y] THEN x ELSE y

\* the texts of the indexed cases: an empty one and two unlike each other
DetectorTexts == {<<>>, <<"a", "B">>, <<"a", "B", "a", "B">>}
TextValues == {Str(t) : t \in DetectorTexts}

\* the records handed to add_batch: with an id, with a null id, and with the
\* id 0
BatchRecords ==
    [id : {Str(<<"b">>), NoneValue, [kind |-> "int", n |-> 0]}, text : {Str(<<"a", "B">>)}]

\* thresholds a detector is built with: one a pair of unrelated texts just
\* reaches, 1.0, and one above every similarity
Thresholds == {<<15, 32>>, <<1, 1>>, <<3, 2>>}

\* longest list handed to add_batch
MaxBatch == 2

(***************************************************************************)
(* DuplicateDetector                                                       *)
(***************************************************************************)
\* case.get(key, default)
dict_get(d, key, default) ==
    IF key \in DOMAIN d /\ d[key].kind # "absent" THEN d[key] ELSE default

\* bool(value), for the kinds of value a record holds
truthy(value) ==
    CASE value.kind = "str" -> value.s # <<>>
      [] value.kind = "int" -> value.n # 0
      [] value.kind = "bool" -> value.b
      [] value.kind = "list" -> value.items # <<>>
      [] OTHER -> FALSE

\* DuplicateDetector.add, as the state of the three maps after the call and
\* whether the call raised.  A text that is None passes `if text:` as false
\* and fails in fingerprint (None has no lower()), after _cases was written;
\* a number that is not 0 fails at text.encode, after _cases was written.
add(det, case_id, record) ==
    LET text  == dict_get(record, "text", Str(<<>>))
        det1  == [det EXCEPT !.cases = DictSet(det.cases, case_id, record)]
        det2  == IF truthy(text) /\ text.kind = "str"
                 THEN [det1 EXCEPT !.exact_hashes =
                           DictSet(det1.exact_hashes, case_id, sha256(text.s))]
                 ELSE det1
    IN  IF text.kind # "str"
        THEN [det2 EXCEPT !.raised = TRUE]
        ELSE [det2 EXCEPT !.fingerprints =
                  DictSet(det2.fingerprints, case_id, fingerprint(det.fingerprinter, text.s))]

\* str(case_id): an id that is text is a text of one character at most
str_of(value) ==
    CASE value.kind = "str" -> IF value.s = <<>> THEN "" ELSE value.s[1]
      [] value.kind = "int" -> ToString(value.n)
      [] value.kind = "bool" -> IF value.b THEN "True" ELSE "False"

RECURSIVE add_batch(_, _)
add_batch(det, batch) ==
    IF batch = <<>> \/ det.raised THEN det
    ELSE LET record  == Head(batch)
             case_id == dict_get(record, "id", NoneValue)
         IN  IF truthy(case_id)
             THEN add_batch(add(det, str_of(case_id), record), Tail(batch))
             ELSE add_batch(det, Tail(batch))

DuplicatePair(id_a, id_b, sim, method) ==
    [id_a |-> id_a, id_b |-> id_b, similarity |-> sim, method |-> method]

\* the (i, j) of `for i in range(n): for j in range(i + 1, n)`, 1-based, in order
RECURSIVE index_pairs_from(_, _, _)
index_pairs_from(i, j, n) ==
    IF i > n THEN <<>>
    ELSE IF j > n THEN index_pairs_from(i + 1, i + 2, n)
    ELSE <<<<i, j>>>> \o index_pairs_from(i, j + 1, n)

index_pairs(n) == index_pairs_from(1, 2, n)

\* hash_groups: content hash -> the ids holding it, in _exact_hashes order
RECURSIVE hash_groups_from(_, _)
hash_groups_from(items, groups) ==
    IF items = <<>> THEN groups
    ELSE LET case_id == Head(items)[1]
             h       == Head(items)[2]
             old     == IF DictHas(groups, h) THEN DictGet(groups, h) ELSE <<>>
         IN  hash_groups_from(Tail(items), DictSet(groups, h, Append(old, case_id)))

hash_groups(hashes) == hash_groups_from(hashes, <<>>)

\* a pair key that keeps the order the two ids came in
pair_key_as_given(x, y) == <<x, y>>

pair_key(x, y) == <<str_min(x, y), str_max(x, y)>>

\* phase 1, one group: the pairs of the group not yet seen
RECURSIVE exact_pairs_of_group(_, _, _)
exact_pairs_of_group(group, pairs, acc) ==
    IF pairs = <<>> THEN acc
    ELSE LET a   == group[Head(pairs)[1]]
             b   == group[Head(pairs)[2]]
             key == pair_key(a, b)
         IN  IF key \notin acc.seen
             THEN exact_pairs_of_group(group, Tail(pairs),
                      [seen |-> acc.seen \cup {key},
                       duplicates |-> Append(acc.duplicates,
                                             DuplicatePair(a, b, <<1, 1>>, "exact_hash"))])
             ELSE exact_pairs_of_group(group, Tail(pairs), acc)

\* phase 1 that pairs up only the groups of more than two ids
RECURSIVE exact_phase_from_gt2(_, _)
exact_phase_from_gt2(groups, acc) ==
    IF groups = <<>> THEN acc
    ELSE LET group == Head(groups)[2]
         IN  exact_phase_from_gt2(Tail(groups),
                 IF Len(group) > 2
                 THEN exact_pairs_of_group(group, index_pairs(Len(group)), acc)
                 ELSE acc)

RECURSIVE exact_phase_from(_, _)
exact_phase_from(groups, acc) ==
    IF groups = <<>> THEN acc
    ELSE LET group == Head(groups)[2]
         IN  exact_phase_from(Tail(groups),
                 IF Len(group) > 1
                 THEN exact_pairs_of_group(group, index_pairs(Len(group)), acc)
                 ELSE acc)

exact_phase(det) ==
    exact_phase_from(hash_groups(det.exact_hashes), [seen |-> {}, duplicates |-> <<>>])

\* phase 2: every pair of indexed ids not seen, kept when similar enough
\* phase 2 that keeps a pair only when strictly above the threshold
RECURSIVE near_phase_from_gt(_, _, _, _)
near_phase_from_gt(det, ids, pairs, acc) ==
    IF pairs = <<>> THEN acc
    ELSE LET a   == ids[Head(pairs)[1]]
             b   == ids[Head(pairs)[2]]
             key == pair_key(a, b)
             sim == similarity(det.fingerprinter,
                               DictGet(det.fingerprints, a), DictGet(det.fingerprints, b))
         IN  IF key \in acc.seen
             THEN near_phase_from_gt(det, ids, Tail(pairs), acc)
             ELSE IF RatGt(sim, det.threshold)
             THEN near_phase_from_gt(det, ids, Tail(pairs),
                      [seen |-> acc.seen \cup {key},
                       duplicates |-> Append(acc.duplicates,
                                             DuplicatePair(a, b, sim, "simhash"))])
             ELSE near_phase_from_gt(det, ids, Tail(pairs), acc)

RECURSIVE near_phase_from(_, _, _, _)
near_phase_from(det, ids, pairs, acc) ==
    IF pairs = <<>> THEN acc
    ELSE LET a   == ids[Head(pairs)[1]]
             b   == ids[Head(pairs)[2]]
             key == pair_key(a, b)
             sim == similarity(det.fingerprinter,
                               DictGet(det.fingerprints, a), DictGet(det.fingerprints, b))
         IN  IF key \in acc.seen
             THEN near_phase_from(det, ids, Tail(pairs), acc)
             ELSE IF RatGe(sim, det.threshold)
             THEN near_phase_from(det, ids, Tail(pairs),
                      [seen |-> acc.seen \cup {key},
                       duplicates |-> Append(acc.duplicates,
                                             DuplicatePair(a, b, sim, "simhash"))])
             ELSE near_phase_from(det, ids, Tail(pairs), acc)

\* phase 2 that compares each id with the next one only
near_phase_neighbours(det, acc) ==
    LET ids == DictKeys(det.fingerprints)
    IN  near_phase_from(det, ids,
            SelectSeq(index_pairs(Len(ids)), LAMBDA p : p[2] = p[1] + 1), acc)

near_phase(det, acc) ==
    LET ids == DictKeys(det.fingerprints)
    IN  near_phase_from(det, ids, index_pairs(Len(ids)), acc)

\* list.sort(key=lambda d: d.similarity, reverse=True): stable, descending
RECURSIVE insert_sorted(_, _)
insert_sorted(sorted, d) ==
    IF sorted = <<>> THEN <<d>>
    ELSE IF RatGt(d.similarity, Head(sorted).similarity)
         THEN <<d>> \o sorted
         ELSE <<Head(sorted)>> \o insert_sorted(Tail(sorted), d)

RECURSIVE sort_by_similarity_from(_, _)
sort_by_similarity_from(list, sorted) ==
    IF list = <<>> THEN sorted
    ELSE sort_by_similarity_from(Tail(list), insert_sorted(sorted, Head(list)))

sort_by_similarity(list) == sort_by_similarity_from(list, <<>>)

find_duplicates(det) == sort_by_similarity(near_phase(det, exact_phase(det)).duplicates)

\* the loop of find_similar: one pair per other indexed id
RECURSIVE similar_from(_, _, _)
similar_from(det, case_id, items) ==
    IF items = <<>> THEN <<>>
    ELSE IF Head(items)[1] = case_id THEN similar_from(det, case_id, Tail(items))
    ELSE <<DuplicatePair(case_id, Head(items)[1],
                         similarity(det.fingerprinter,
                                    DictGet(det.fingerprints, case_id), Head(items)[2]),
                         "simhash")>>
         \o similar_from(det, case_id, Tail(items))

\* find_similar, were the pairs not sorted
find_similar_unsorted(det, case_id, top_k) ==
    IF ~DictHas(det.fingerprints, case_id) THEN Raised
    ELSE LET found == similar_from(det, case_id, det.fingerprints)
         IN  Returned(SubSeq(found, 1, Min(top_k, Len(found))))

\* find_similar, were an id that is not indexed taken for an empty text
find_similar_of_any_id(det, case_id, top_k) ==
    LET with   == IF DictHas(det.fingerprints, case_id) THEN det
                  ELSE [det EXCEPT !.fingerprints = DictSet(@, case_id, {})]
        sorted == sort_by_similarity(similar_from(with, case_id, det.fingerprints))
    IN  Returned(SubSeq(sorted, 1, Min(top_k, Len(sorted))))

\* find_similar, for top_k >= 0: the pairs, or the KeyError
find_similar(det, case_id, top_k) ==
    IF ~DictHas(det.fingerprints, case_id) THEN Raised
    ELSE LET sorted == sort_by_similarity(similar_from(det, case_id, det.fingerprints))
         IN  Returned(SubSeq(sorted, 1, Min(top_k, Len(sorted))))

\* clear, were the content digests kept
clear_keeping_hashes(det) ==
    [det EXCEPT !.fingerprints = <<>>, !.cases = <<>>]

clear(det) ==
    [det EXCEPT !.fingerprints = <<>>, !.exact_hashes = <<>>, !.cases = <<>>]

stats(det) ==
    LET groups == hash_groups(det.exact_hashes)
    IN  [total_indexed |-> Len(det.fingerprints),
         exact_duplicate_groups |->
             Cardinality({i \in 1..Len(groups) : Len(groups[i][2]) > 1}),
         threshold |-> det.threshold,
         hash_bits |-> det.fingerprinter.hash_bits]

\* the detector object, as the operators above read it
Detector ==
    [fingerprinter |-> fingerprinter, threshold |-> threshold,
     fingerprints |-> fingerprints, exact_hashes |-> exact_hashes, cases |-> cases,
     raised |-> FALSE]

Store(det) ==
    /\ fingerprints' = det.fingerprints
    /\ exact_hashes' = det.exact_hashes
    /\ cases' = det.cases

RECURSIVE SeqsUpTo(_, _)
SeqsUpTo(S, n) ==
    IF n = 0 THEN {<<>>}
    ELSE LET shorter == SeqsUpTo(S, n - 1)
         IN  shorter \cup {Append(s, x) : s \in {t \in shorter : Len(t) = n - 1}, x \in S}

FingerprinterIdle ==
    /\ fpArg = <<>>
    /\ fpRet = NoCall
    /\ simArgs = <<{}, {}>>
    /\ simRet = NoCall

NoQuery == [op |-> "none"]

\* no Scraper and no Storage in play
CoreIdle ==
    /\ scraper = [daily_limit |-> 0, request_count |-> 0, adapter |-> [calls |-> 0]]
    /\ storage = [progress |-> [fetched_ids |-> <<>>, total_count |-> 0]]
    /\ coreCall = NoQuery
    /\ coreRet = NoCall

\* DuplicateDetector(threshold, hash_bits): ngram_size and normalize defaulted
InitDetector ==
    /\ fingerprinter \in [hash_bits : HASH_BITS_ALLOWED, ngram_size : {3}, normalize : {TRUE}]
    /\ threshold \in Thresholds
    /\ fingerprints = <<>>
    /\ exact_hashes = <<>>
    /\ cases = <<>>
    /\ ret = NoCall
    /\ query = NoQuery
    /\ FingerprinterIdle
    /\ ValidatorIdle
    /\ ReporterIdle
    /\ CoreIdle

AddCall(case_id, text) ==
    LET record == [id |-> Str(<<case_id>>), text |-> text]
        det    == add(Detector, case_id, record)
    IN  /\ Store(det)
        /\ ret' = IF det.raised THEN Raised ELSE NoCall
        /\ query' = NoQuery
        /\ UNCHANGED <<fpVars, repVars, coreVars, valVars, threshold>>

Add == \E case_id \in Ids, text \in TextValues : AddCall(case_id, text)

Batches == SeqsUpTo(BatchRecords, MaxBatch)

AddBatchCall(batch) ==
    LET det == add_batch(Detector, batch)
    IN  /\ Store(det)
        /\ ret' = IF det.raised THEN Raised ELSE NoCall
        /\ query' = NoQuery
        /\ UNCHANGED <<fpVars, repVars, coreVars, valVars, threshold>>

AddBatch == \E batch \in Batches : AddBatchCall(batch)

FindDuplicates ==
    /\ ret' = Returned(find_duplicates(Detector))
    /\ query' = [op |-> "find_duplicates"]
    /\ UNCHANGED <<fpVars, repVars, coreVars, valVars, threshold, fingerprints, exact_hashes, cases>>

Clear ==
    /\ Store(clear(Detector))
    /\ ret' = NoCall
    /\ query' = [op |-> "clear", dropped |-> Len(fingerprints)]
    /\ UNCHANGED <<fpVars, repVars, coreVars, valVars, threshold>>

NextDetector == Add \/ AddBatch \/ FindDuplicates \/ Clear

SpecDetector == InitDetector /\ [][NextDetector]_vars

(***************************************************************************)
(* A DuplicateDetector built with its defaults, with its queries           *)
(***************************************************************************)
\* largest top_k handed to find_similar
MaxTopK == 2

\* DuplicateDetector()
InitQueries ==
    /\ fingerprinter = [hash_bits |-> 128, ngram_size |-> 3, normalize |-> TRUE]
    /\ threshold = <<85, 100>>
    /\ fingerprints = <<>>
    /\ exact_hashes = <<>>
    /\ cases = <<>>
    /\ ret = NoCall
    /\ query = NoQuery
    /\ FingerprinterIdle
    /\ ValidatorIdle
    /\ ReporterIdle
    /\ CoreIdle

FindSimilar ==
    \E case_id \in Ids, top_k \in 0..MaxTopK :
        /\ ret' = find_similar(Detector, case_id, top_k)
        /\ query' = [op |-> "find_similar", case_id |-> case_id, top_k |-> top_k]
        /\ UNCHANGED <<fpVars, repVars, coreVars, valVars, threshold, fingerprints, exact_hashes, cases>>

Stats ==
    /\ ret' = Returned(stats(Detector))
    /\ query' = [op |-> "stats"]
    /\ UNCHANGED <<fpVars, repVars, coreVars, valVars, threshold, fingerprints, exact_hashes, cases>>

NextQueries == Add \/ FindDuplicates \/ Clear \/ FindSimilar \/ Stats

SpecQueries == InitQueries /\ [][NextQueries]_vars

(***************************************************************************)
(* Claims about DuplicateDetector, under SpecDetector.  ret is the value   *)
(* of the last call and every call that changes the index returns None, so *)
(* a list in ret is find_duplicates() of the index as it stands.           *)
(***************************************************************************)
Pairs == IF ret.kind = "value" THEN ret.value ELSE <<>>
PairIds(d) == {d.id_a, d.id_b}
IndexedIds == DictKeySet(fingerprints)
LatestText(k) == dict_get(DictGet(cases, k), "text", Str(<<>>))
ShareDigest(a, b) ==
    /\ DictHas(exact_hashes, a)
    /\ DictHas(exact_hashes, b)
    /\ DictGet(exact_hashes, a) = DictGet(exact_hashes, b)
Sim(a, b) == similarity(fingerprinter, DictGet(fingerprints, a), DictGet(fingerprints, b))

\* C1: one find_duplicates call returns at most one pair per unordered pair
\* of ids - never (a,b) and (b,a), never the same pair twice (so never an
\* exact and a near pair for the same two ids) - and never a pair of an id
\* with itself.
C1_OnePairPerUnorderedPair ==
    /\ \A i \in 1..Len(Pairs) : Pairs[i].id_a # Pairs[i].id_b
    /\ \A i, j \in 1..Len(Pairs) : i # j => PairIds(Pairs[i]) # PairIds(Pairs[j])

\* three ids all paired, an exact pair and a near pair among them, after an
\* id was re-added (so the two maps list the ids in different orders)
C1_Witness ==
    /\ Len(Pairs) = 3
    /\ \E i, j \in 1..3 : Pairs[i].method = "exact_hash" /\ Pairs[j].method = "simhash"
    /\ DictKeys(fingerprints) # DictKeys(exact_hashes)

\* C2: two distinct ids last added with the same non-empty text are returned
\* as an exact pair of similarity 1.0, whatever the threshold.
C2_IdenticalTextExactPair ==
    ret.kind = "value" =>
        \A a, b \in DictKeySet(cases) :
            (/\ a # b
             /\ LatestText(a).kind = "str"
             /\ LatestText(a).s # <<>>
             /\ LatestText(a) = LatestText(b))
            => \E i \in 1..Len(Pairs) :
                   /\ PairIds(Pairs[i]) = {a, b}
                   /\ Pairs[i].method = "exact_hash"
                   /\ Pairs[i].similarity = <<1, 1>>

\* an exact pair returned by a detector whose threshold is above 1.0
C2_Witness ==
    /\ RatGt(threshold, <<1, 1>>)
    /\ \E i \in 1..Len(Pairs) :
           /\ Pairs[i].method = "exact_hash"
           /\ LatestText(Pairs[i].id_a) = LatestText(Pairs[i].id_b)
           /\ LatestText(Pairs[i].id_a).s # <<>>

\* C3: the entries held for an id are those of its latest add: the
\* fingerprint of the latest text, and an exact digest iff that text is
\* non-empty (then its digest).
C3_EntriesFromLatestAdd ==
    \A k \in DictKeySet(cases) :
        LatestText(k).kind = "str" =>
            /\ DictHas(fingerprints, k)
            /\ DictGet(fingerprints, k) = fingerprint(fingerprinter, LatestText(k).s)
            /\ DictHas(exact_hashes, k) <=> LatestText(k).s # <<>>
            /\ DictHas(exact_hashes, k) => DictGet(exact_hashes, k) = sha256(LatestText(k).s)

\* C4: two distinct indexed ids that share no exact digest are returned as a
\* near pair iff their similarity reaches the threshold, with that similarity.
C4_NearPairIffSimilar ==
    ret.kind = "value" =>
        \A a, b \in IndexedIds :
            (a # b /\ ~ShareDigest(a, b)) =>
                /\ (\E i \in 1..Len(Pairs) :
                        Pairs[i].method = "simhash" /\ PairIds(Pairs[i]) = {a, b})
                   <=> RatGe(Sim(a, b), threshold)
                /\ \A i \in 1..Len(Pairs) :
                       (Pairs[i].method = "simhash" /\ PairIds(Pairs[i]) = {a, b})
                       => Pairs[i].similarity = Sim(a, b)

\* one result with a near pair of two different non-empty texts exactly at
\* the threshold, and two indexed ids left out for being below it
C4_Witness ==
    /\ ret.kind = "value"
    /\ \E i \in 1..Len(Pairs) :
           /\ Pairs[i].method = "simhash"
           /\ RatEq(Pairs[i].similarity, threshold)
           /\ RatGt(<<1, 1>>, Pairs[i].similarity)
    /\ \E a, b \in IndexedIds :
           /\ a # b
           /\ ~ShareDigest(a, b)
           /\ RatGt(threshold, Sim(a, b))
           /\ \A i \in 1..Len(Pairs) : PairIds(Pairs[i]) # {a, b}

\* the latest text of the id is empty or absent, or is a text that
\* normalizes to the empty text
RawEmpty(k) == LatestText(k) = Str(<<>>)
NormalizesToEmpty(k) == LatestText(k).kind = "str" /\ _normalize(LatestText(k).s) = <<>>

\* C28: two distinct indexed records whose text is empty, absent or
\* normalizes to empty both have fingerprint 0 and no common exact digest,
\* and find_duplicates returns them as a near pair of similarity 1.0 for
\* every threshold up to 1.0; when their raw text is empty or absent they
\* are never returned as an exact pair.
C28_EmptyTextsNearPair ==
    query.op = "find_duplicates" /\ RatGe(<<1, 1>>, threshold) =>
        \A a, b \in IndexedIds \cap DictKeySet(cases) :
            a # b /\ NormalizesToEmpty(a) /\ NormalizesToEmpty(b) =>
                /\ DictGet(fingerprints, a) = {}
                /\ DictGet(fingerprints, b) = {}
                /\ ~ShareDigest(a, b)
                /\ \E i \in 1..Len(Pairs) :
                       /\ PairIds(Pairs[i]) = {a, b}
                       /\ Pairs[i].method = "simhash"
                       /\ Pairs[i].similarity = <<1, 1>>
                /\ RawEmpty(a) /\ RawEmpty(b)
                       => ~\E i \in 1..Len(Pairs) :
                               PairIds(Pairs[i]) = {a, b} /\ Pairs[i].method = "exact_hash"

(***************************************************************************)
(* Exact rationals, for the scores and weights of the validator.           *)
(***************************************************************************)
RECURSIVE GCD(_, _)
GCD(a, b) == IF b = 0 THEN a ELSE GCD(b, a % b)

Rat(n, d) == LET g == GCD(IF n < 0 THEN -n ELSE n, d) IN <<n \div g, d \div g>>
RatAdd(a, b) == Rat(a[1] * b[2] + b[1] * a[2], a[2] * b[2])
RatMul(a, b) == Rat(a[1] * b[1], a[2] * b[2])
RatDiv(a, b) == Rat(a[1] * b[2], a[2] * b[1])
RatMin(a, b) == IF RatGe(b, a) THEN a ELSE b
RatMax(a, b) == IF RatGe(a, b) THEN a ELSE b

(***************************************************************************)
(* validator.py: Severity, ValidationIssue, FieldSpec, DEFAULT_CASE_SCHEMA *)
(***************************************************************************)
ERROR == "error"
WARNING == "warning"
INFO == "info"

\* ValidationIssue(field, severity, message); a message is its words.  The
\* issue's value attribute is written and never read, and is left out.
ValidationIssue(field, severity, message) ==
    [field |-> field, severity |-> severity, message |-> message]

\* FieldSpec.  A tuple of types is the sequence of their names; None for
\* min_length or max_length is 0 and None for pattern or custom_check is "":
\* the code reads the four only through their truth value first, which is
\* the same for None and for 0 or "".  weight is a rational.
FieldSpec(name, required, field_type, min_length, max_length, pattern, custom_check, weight) ==
    [name |-> name, required |-> required, field_type |-> field_type,
     min_length |-> min_length, max_length |-> max_length, pattern |-> pattern,
     custom_check |-> custom_check, weight |-> weight]

CITATION_PATTERN == ".+\\d+.*"
DATE_PATTERN == "\\d{4}[-/]\\d{1,2}[-/]\\d{1,2}"

DEFAULT_CASE_SCHEMA ==
    << FieldSpec("id", TRUE, <<"str">>, 1, 0, "", "", <<1, 1>>),
       FieldSpec("title", TRUE, <<"str">>, 5, 0, "", "", <<1, 1>>),
       FieldSpec("citation", FALSE, <<"str">>, 3, 0, CITATION_PATTERN, "", <<9, 10>>),
       FieldSpec("court", FALSE, <<"str">>, 2, 0, "", "", <<8, 10>>),
       FieldSpec("date", FALSE, <<"str">>, 0, 0, DATE_PATTERN, "", <<7, 10>>),
       FieldSpec("year", FALSE, <<"int", "str">>, 0, 0, "", "", <<7, 10>>),
       FieldSpec("judges", FALSE, <<"list", "str">>, 0, 0, "", "", <<5, 10>>),
       FieldSpec("text", TRUE, <<"str">>, 100, 0, "", "", <<1, 1>>),
       FieldSpec("headnotes", FALSE, <<"str", "list">>, 0, 0, "", "", <<4, 10>>),
       FieldSpec("statutes_cited", FALSE, <<"list", "str">>, 0, 0, "", "", <<3, 10>>) >>

(***************************************************************************)
(* Python on the values of a record                                        *)
(***************************************************************************)
IntValue(n) == [kind |-> "int", n |-> n]
BoolValue(b) == [kind |-> "bool", b |-> b]
ListValue(items) == [kind |-> "list", items |-> items]

\* isinstance(value, field_type): a bool is an int as well
isinstance(value, field_type) ==
    \E k \in 1..Len(field_type) :
        \/ value.kind = field_type[k]
        \/ value.kind = "bool" /\ field_type[k] = "int"

\* len(value) is defined for text and lists, and raises TypeError otherwise
HasLen(value) == value.kind \in {"str", "list"}
len(value) == IF value.kind = "str" THEN Len(value.s) ELSE Len(value.items)

IsDigit(c) == c \in {"0", "1", "2", "3", "4", "5", "6", "7", "8", "9"}
IsDateSep(c) == c \in {"-", "/"}

\* re.search(CITATION_PATTERN, s): some character, then a digit
search_citation(s) == \E p \in 2..Len(s) : IsDigit(s[p])

\* re.search(DATE_PATTERN, s): four digits, a separator, one or two digits,
\* a separator, a digit, starting anywhere
search_date(s) ==
    \E i \in 1..Len(s), k \in {1, 2} :
        /\ i + 5 + k <= Len(s)
        /\ \A j \in 0..3 : IsDigit(s[i + j])
        /\ IsDateSep(s[i + 4])
        /\ \A j \in 1..k : IsDigit(s[i + 4 + j])
        /\ IsDateSep(s[i + 5 + k])
        /\ IsDigit(s[i + 6 + k])

\* re.search(pattern, s) is not None
re_search(pattern, s) ==
    CASE pattern = CITATION_PATTERN -> search_citation(s)
      [] pattern = DATE_PATTERN -> search_date(s)

\* the custom_check hooks of the modelled schemas: the message returned
\* (its words), <<>> for None
custom_check_call(check, value) ==
    CASE check = "reject_lists" ->
             IF value.kind = "list" THEN <<"must", "not", "be", "a", "list">> ELSE <<>>
      [] OTHER -> <<>>

(***************************************************************************)
(* CaseValidator                                                           *)
(***************************************************************************)
\* what _validate_field returns, or that it raised
FieldResult(score, issues) == [raised |-> FALSE, score |-> score, issues |-> issues]
FieldRaised == [raised |-> TRUE, score |-> <<0, 1>>, issues |-> <<>>]

\* the type check's severity, were strict not looked at
type_severity_required_only(self, spec) ==
    IF spec.required THEN ERROR ELSE WARNING

\* the type check's severity
type_severity(self, spec) ==
    IF self.strict THEN ERROR
    ELSE IF spec.required THEN ERROR ELSE WARNING

\* the last two rules, were the length ratio not capped at 1.0
custom_and_bonus_unclamped(self, spec, value) ==
    LET error_msg == IF spec.custom_check # ""
                     THEN custom_check_call(spec.custom_check, value) ELSE <<>>
    IN  IF error_msg # <<>>
        THEN FieldResult(<<8, 10>>, <<ValidationIssue(spec.name, WARNING, error_msg)>>)
        ELSE IF value.kind = "str" /\ spec.min_length # 0
        THEN FieldResult(RatMax(Rat(len(value), spec.min_length * 10), <<9, 10>>), <<>>)
        ELSE FieldResult(<<1, 1>>, <<>>)

\* the last two rules: the custom check, then the length bonus or 1.0
custom_and_bonus(self, spec, value) ==
    LET error_msg == IF spec.custom_check # ""
                     THEN custom_check_call(spec.custom_check, value) ELSE <<>>
    IN  IF error_msg # <<>>
        THEN FieldResult(<<8, 10>>, <<ValidationIssue(spec.name, WARNING, error_msg)>>)
        ELSE IF value.kind = "str" /\ spec.min_length # 0
        THEN IF ~HasLen(value) THEN FieldRaised
             ELSE FieldResult(RatMax(RatMin(Rat(len(value), spec.min_length * 10), <<1, 1>>),
                                     <<9, 10>>), <<>>)
        ELSE FieldResult(<<1, 1>>, <<>>)

\* the pattern check, were strict to turn its warning into an error
pattern_and_after_strict(self, spec, value) ==
    IF spec.pattern # "" /\ value.kind = "str" /\ ~re_search(spec.pattern, value.s)
    THEN FieldResult(<<7, 10>>,
             <<ValidationIssue(spec.name, IF self.strict THEN ERROR ELSE WARNING,
                               <<"Does", "not", "match", "expected", "pattern">>)>>)
    ELSE custom_and_bonus(self, spec, value)

\* the pattern check and what follows it
pattern_and_after(self, spec, value) ==
    IF spec.pattern # "" /\ value.kind = "str" /\ ~re_search(spec.pattern, value.s)
    THEN FieldResult(<<7, 10>>,
             <<ValidationIssue(spec.name, WARNING,
                               <<"Does", "not", "match", "expected", "pattern">>)>>)
    ELSE custom_and_bonus(self, spec, value)

\* the length checks, were a value that is too long checked further
length_and_after_no_return(self, spec, value) ==
    LET after == pattern_and_after(self, spec, value)
    IN  IF value.kind = "str" /\ spec.min_length # 0 /\ len(value) < spec.min_length
        THEN FieldResult(RatMin(Rat(len(value), spec.min_length), <<8, 10>>),
                 <<ValidationIssue(spec.name,
                                   IF spec.required THEN ERROR ELSE WARNING,
                                   <<"Too", "short:", ToString(len(value)), "chars",
                                     "(min:", ToString(spec.min_length), ")">>)>>)
        ELSE IF value.kind = "str" /\ spec.max_length # 0 /\ len(value) > spec.max_length
        THEN [after EXCEPT !.issues =
                 <<ValidationIssue(spec.name, WARNING,
                                   <<"Too", "long:", ToString(len(value)), "chars",
                                     "(max:", ToString(spec.max_length), ")">>)>> \o @]
        ELSE after

\* the length checks (for strings) and what follows them
length_and_after(self, spec, value) ==
    IF value.kind = "str"
    THEN IF ~HasLen(value) THEN FieldRaised
         ELSE IF spec.min_length # 0 /\ len(value) < spec.min_length
         THEN FieldResult(RatMin(Rat(len(value), spec.min_length), <<8, 10>>),
                  <<ValidationIssue(spec.name,
                                    IF spec.required THEN ERROR ELSE WARNING,
                                    <<"Too", "short:", ToString(len(value)), "chars",
                                      "(min:", ToString(spec.min_length), ")">>)>>)
         ELSE IF spec.max_length # 0 /\ len(value) > spec.max_length
         THEN FieldResult(<<9, 10>>,
                  <<ValidationIssue(spec.name, WARNING,
                                    <<"Too", "long:", ToString(len(value)), "chars",
                                      "(max:", ToString(spec.max_length), ")">>)>>)
         ELSE pattern_and_after(self, spec, value)
    ELSE pattern_and_after(self, spec, value)

\* _validate_field, were the type check left out
_validate_field_untyped(self, record, spec) ==
    LET value == dict_get(record, spec.name, NoneValue)
    IN  IF value.kind = "none"
        THEN FieldResult(<<0, 1>>,
                 IF spec.required
                 THEN <<ValidationIssue(spec.name, ERROR,
                                        <<"Required", "field", "is", "missing">>)>>
                 ELSE <<>>)
        ELSE length_and_after(self, spec, value)

_validate_field(self, record, spec) ==
    LET value == dict_get(record, spec.name, NoneValue)
    IN  IF value.kind = "none"
        THEN FieldResult(<<0, 1>>,
                 IF spec.required
                 THEN <<ValidationIssue(spec.name, ERROR,
                                        <<"Required", "field", "is", "missing">>)>>
                 ELSE <<>>)
        ELSE IF ~isinstance(value, spec.field_type)
        THEN FieldResult(<<2, 10>>,
                 <<ValidationIssue(spec.name, type_severity(self, spec),
                                   <<"Expected", "type">> \o spec.field_type
                                       \o <<"got", value.kind>>)>>)
        ELSE length_and_after(self, spec, value)

\* the loop of validate over the schema
RECURSIVE validate_fields(_, _, _, _)
validate_fields(self, record, specs, acc) ==
    IF specs = <<>> \/ acc.raised THEN acc
    ELSE LET spec == Head(specs)
             got  == _validate_field(self, record, spec)
         IN  validate_fields(self, record, Tail(specs),
                 [raised |-> got.raised,
                  field_scores |-> DictSet(acc.field_scores, spec.name, got.score),
                  issues |-> acc.issues \o got.issues])

\* sum(spec.weight for spec in self.schema)
RECURSIVE total_weight(_)
total_weight(specs) ==
    IF specs = <<>> THEN <<0, 1>>
    ELSE RatAdd(Head(specs).weight, total_weight(Tail(specs)))

\* sum(field_scores.get(spec.name, 0.0) * spec.weight for spec in self.schema)
RECURSIVE weighted_sum(_, _)
weighted_sum(field_scores, specs) ==
    IF specs = <<>> THEN <<0, 1>>
    ELSE RatAdd(RatMul(IF DictHas(field_scores, Head(specs).name)
                       THEN DictGet(field_scores, Head(specs).name) ELSE <<0, 1>>,
                       Head(specs).weight),
                weighted_sum(field_scores, Tail(specs)))

\* the keys a record can hold, in the order the record lists them, and
\* those of them that start with "_"
KeyOrder ==
    <<"id", "title", "citation", "date", "year", "judges", "text", "extra", "_note">>
startswith_underscore(key) == key \in {"_note", "_scraped_at"}

\* for key in case: the keys the record holds
keys_of(record) ==
    SelectSeq(KeyOrder, LAMBDA k : k \in DOMAIN record /\ record[k].kind # "absent")

\* the unknown-field loop, were the "_" prefix not looked at
RECURSIVE unknown_field_issues_any_prefix(_, _)
unknown_field_issues_any_prefix(keys, known_fields) ==
    IF keys = <<>> THEN <<>>
    ELSE (IF Head(keys) \notin known_fields
          THEN <<ValidationIssue(Head(keys), INFO,
                                 <<"Unknown", "field", "not", "in", "schema">>)>>
          ELSE <<>>)
         \o unknown_field_issues_any_prefix(Tail(keys), known_fields)

\* the unknown-field loop of validate
RECURSIVE unknown_field_issues(_, _)
unknown_field_issues(keys, known_fields) ==
    IF keys = <<>> THEN <<>>
    ELSE (IF Head(keys) \notin known_fields /\ ~startswith_underscore(Head(keys))
          THEN <<ValidationIssue(Head(keys), INFO,
                                 <<"Unknown", "field", "not", "in", "schema">>)>>
          ELSE <<>>)
         \o unknown_field_issues(Tail(keys), known_fields)

ValidationResult(case_id, valid, issues, completeness_score, field_scores) ==
    [case_id |-> case_id, valid |-> valid, issues |-> issues,
     completeness_score |-> completeness_score, field_scores |-> field_scores]

\* valid, were a warning to count as an error does
valid_of_no_warning(issues) ==
    ~\E i \in 1..Len(issues) : issues[i].severity \in {ERROR, WARNING}

\* valid, from the issues
valid_of(issues) == ~\E i \in 1..Len(issues) : issues[i].severity = ERROR

\* CaseValidator.validate, for self = [schema, strict]
validate(self, record) ==
    LET case_id      == dict_get(record, "id", Str(<<"<unknown>">>))
        total        == total_weight(self.schema)
        fields       == validate_fields(self, record, self.schema,
                            [raised |-> FALSE, field_scores |-> <<>>, issues |-> <<>>])
        weighted     == weighted_sum(fields.field_scores, self.schema)
        completeness == IF RatGt(total, <<0, 1>>) THEN RatDiv(weighted, total) ELSE <<0, 1>>
        known_fields == {self.schema[k].name : k \in 1..Len(self.schema)} \cup {"_scraped_at"}
        issues       == fields.issues \o unknown_field_issues(keys_of(record), known_fields)
    IN  IF fields.raised THEN Raised
        ELSE Returned(ValidationResult(case_id, valid_of(issues), issues, completeness,
                                       fields.field_scores))

(***************************************************************************)
(* A ContentFingerprinter on its own: the text is drawn, fingerprint is    *)
(* called once.                                                            *)
(***************************************************************************)
Fingerprinters ==
    [hash_bits : HASH_BITS_ALLOWED, ngram_size : {2, 3}, normalize : BOOLEAN]

DetectorIdle ==
    /\ threshold = <<1, 1>>
    /\ fingerprints = <<>>
    /\ exact_hashes = <<>>
    /\ cases = <<>>
    /\ ret = NoCall
    /\ query = NoQuery

InitFingerprint ==
    /\ fingerprinter \in Fingerprinters
    /\ fpArg \in StringsUpTo(MaxTextLen)
    /\ fpRet = NoCall
    /\ simArgs = <<{}, {}>>
    /\ simRet = NoCall
    /\ DetectorIdle
    /\ ValidatorIdle
    /\ ReporterIdle
    /\ CoreIdle

Fingerprint ==
    /\ fpRet.kind = "none"
    /\ fpRet' = Returned(fingerprint(fingerprinter, fpArg))
    /\ UNCHANGED <<fingerprinter, fpArg, simArgs, simRet, detVars, valVars, repVars, coreVars>>

NextFingerprint == Fingerprint

SpecFingerprint == InitFingerprint /\ [][NextFingerprint]_vars

(***************************************************************************)
(* Claims about ContentFingerprinter, under SpecFingerprint.               *)
(***************************************************************************)
\* the text fingerprint shingles: fpArg, normalized when the flag is set
Shingled == IF fingerprinter.normalize THEN _normalize(fpArg) ELSE fpArg

\* the overlapping n-grams of t, stated from the text alone
Grams(t, n) ==
    IF Len(t) < n THEN <<t>>
    ELSE [k \in 1..(Len(t) - n + 1) |-> [j \in 1..n |-> t[k + j - 1]]]

\* how many of the grams (with multiplicity) have bit i set in their MD5
Ones(grams, i) == Cardinality({k \in 1..Len(grams) : BitSet(md5_int(grams[k]), i)})

\* C5: for a non-empty normalized text the shingles are its len-n+1
\* overlapping n-grams (the whole text when shorter than n), bit i of the
\* fingerprint is set iff strictly more shingles have bit i set in their hash
\* than clear (a tie leaves it 0), and no bit at hash_bits or above is set.
C5_FingerprintIsStrictMajority ==
    (fpRet.kind = "value" /\ Shingled # <<>>) =>
        LET grams == Grams(Shingled, fingerprinter.ngram_size)
        IN  /\ _shingle(fingerprinter, Shingled) = grams
            /\ \A i \in 0..(fingerprinter.hash_bits - 1) :
                   i \in fpRet.value <=> 2 * Ones(grams, i) > Len(grams)
            /\ \A i \in fpRet.value : i >= 0 /\ i < fingerprinter.hash_bits

\* a text of several shingles, one of them repeated, with a tied bit, a bit
\* set and a bit clear
C5_Witness ==
    /\ fpRet.kind = "value"
    /\ LET grams == Grams(Shingled, fingerprinter.ngram_size)
       IN  /\ Len(grams) > 2
           /\ \E j, k \in 1..Len(grams) : j # k /\ grams[j] = grams[k]
           /\ \E i \in 0..(fingerprinter.hash_bits - 1) :
                  2 * Ones(grams, i) = Len(grams) /\ i \notin fpRet.value
           /\ \E i \in 0..(fingerprinter.hash_bits - 1) : i \in fpRet.value

\* two whitespace characters next to each other
HasWhitespaceRun(t) == \E i \in 1..(Len(t) - 1) : IsSpace(t[i]) /\ IsSpace(t[i + 1])

\* C30: normalization is idempotent and leaves no run of two or more
\* whitespace characters, so the fingerprint of the normalized text is the
\* fingerprint of the text, also when a punctuation character stands
\* between two spaces.
C30_NormalizeIdempotent ==
    fpRet.kind = "value" /\ fingerprinter.normalize =>
        /\ _normalize(_normalize(fpArg)) = _normalize(fpArg)
        /\ ~HasWhitespaceRun(_normalize(fpArg))
        /\ fingerprint(fingerprinter, _normalize(fpArg)) = fpRet.value

(***************************************************************************)
(* CaseValidator objects.  A schema is a list object, held by reference:   *)
(* heap maps a reference to the list's contents.  DEFAULT_REF is the       *)
(* module-level list DEFAULT_CASE_SCHEMA; the list created for a validator *)
(* is named after the validator (remove_field rebinds self.schema to a new *)
(* list, and the one it replaces, if no one else holds it, is gone).       *)
(***************************************************************************)
DEFAULT_REF == "DEFAULT_CASE_SCHEMA"
ValidatorIds == {"v1", "v2"}

NoSchema == [kind |-> "none"]
SchemaRef(ref) == [kind |-> "ref", ref |-> ref]

\* {spec.name: spec for spec in schema}
RECURSIVE field_map_of(_)
field_map_of(specs) ==
    IF specs = <<>> THEN <<>>
    ELSE DictSet(field_map_of(SubSeq(specs, 1, Len(specs) - 1)),
                 specs[Len(specs)].name, specs[Len(specs)])

\* d.pop(key, None)
DictPop(d, key) == SelectSeq(d, LAMBDA p : p[1] # key)

\* CaseValidator.__init__, were the list handed over kept and not copied
CaseValidator_shared(h, self_id, schema, strict) ==
    LET source == IF schema.kind # "none" THEN schema.ref ELSE DEFAULT_REF
    IN  [heap |-> h,
         self |-> [schema |-> source, strict |-> strict,
                   field_map |-> field_map_of(h[source])]]

\* CaseValidator.__init__ of the validator self_id: the heap after it and
\* the object
CaseValidator(h, self_id, schema, strict) ==
    LET source == IF schema.kind # "none" THEN schema.ref ELSE DEFAULT_REF
        copy   == h[source]
    IN  [heap |-> (self_id :> copy) @@ h,
         self |-> [schema |-> self_id, strict |-> strict,
                   field_map |-> field_map_of(copy)]]

\* the object with its schema read through the reference
deref(h, obj) == [schema |-> h[obj.schema], strict |-> obj.strict]

add_field(h, self, spec) ==
    [heap |-> [h EXCEPT ![self.schema] = Append(@, spec)],
     self |-> [self EXCEPT !.field_map = DictSet(@, spec.name, spec)]]

remove_field(h, self_id, self, name) ==
    [heap |-> (self_id :> SelectSeq(h[self.schema], LAMBDA s : s.name # name)) @@ h,
     self |-> [self EXCEPT !.schema = self_id, !.field_map = DictPop(@, name)]]

(***************************************************************************)
(* The records, the field specifications and the names the calls are made  *)
(* with.                                                                   *)
(***************************************************************************)
S_AB == <<"a", "b">>
S_TITLE == <<"R", " ", "v", " ", "S", "m", "i", "t", "h">>
S_CITATION == <<"2", "0", "2", "4", " ", "S", "C", " ", "1">>
S_NO_DIGITS == <<"n", "o", "-", "d", "i", "g", "i", "t", "s">>
S_DATE == <<"2", "0", "2", "4", "-", "0", "1", "-", "1", "5">>
S_LONG == [i \in 1..120 |-> "x"]

RecordKeys == {KeyOrder[k] : k \in 1..Len(KeyOrder)}

EmptyCase == [k \in RecordKeys |-> Absent]

FullCase ==
    [k \in RecordKeys |->
        CASE k = "id" -> Str(S_AB)
          [] k = "title" -> Str(S_TITLE)
          [] k = "citation" -> Str(S_CITATION)
          [] k = "date" -> Str(S_DATE)
          [] k = "year" -> IntValue(2024)
          [] k = "judges" -> ListValue(<<Str(S_AB)>>)
          [] k = "text" -> Str(S_LONG)
          [] OTHER -> Absent]

\* every value of a kind its field does not allow
MalformedCase ==
    [k \in RecordKeys |->
        CASE k \in {"id", "title", "text"} -> IntValue(0)
          [] k \in {"citation", "date"} -> ListValue(<<>>)
          [] k = "year" -> NoneValue
          [] k = "judges" -> BoolValue(FALSE)
          [] OTHER -> Absent]

\* FullCase with two more fields, one of a name that starts with "_"
AnnotatedCase == [FullCase EXCEPT !["extra"] = Str(S_AB), !["_note"] = NoneValue]

\* the values one key of FullCase is changed to
Changes ==
    {<<"id", Absent>>, <<"id", NoneValue>>, <<"id", Str(<<>>)>>, <<"id", IntValue(7)>>,
     <<"id", Str(S_LONG)>>,
     <<"title", Absent>>, <<"title", Str(S_AB)>>, <<"title", ListValue(<<>>)>>,
     <<"citation", Str(S_NO_DIGITS)>>, <<"citation", Str(S_AB)>>,
     <<"citation", IntValue(1)>>,
     <<"date", Str(S_NO_DIGITS)>>, <<"date", BoolValue(TRUE)>>,
     <<"year", Str(S_AB)>>, <<"year", BoolValue(TRUE)>>, <<"year", ListValue(<<>>)>>,
     <<"judges", Str(S_AB)>>, <<"judges", IntValue(3)>>,
     <<"text", Absent>>, <<"text", Str(S_AB)>>,
     <<"extra", Str(S_AB)>>, <<"extra", Str(S_DATE)>>, <<"extra", ListValue(<<Str(S_AB)>>)>>,
     <<"extra", Str(S_NO_DIGITS)>>,
     <<"_note", Str(S_AB)>>}

Records ==
    {EmptyCase, FullCase, MalformedCase, AnnotatedCase}
        \cup {[FullCase EXCEPT ![c[1]] = c[2]] : c \in Changes}

\* the specifications add_field is called with: one more required "id", a
\* field with a maximal length and a custom check, and a field with a
\* maximal length and a pattern
AddSpecs ==
    {FieldSpec("id", TRUE, <<"str">>, 0, 0, "", "", <<1, 1>>),
     FieldSpec("extra", FALSE, <<"list", "str">>, 0, 3, "", "reject_lists", <<1, 2>>),
     FieldSpec("extra", FALSE, <<"str">>, 0, 3, CITATION_PATTERN, "", <<1, 2>>)}

RemoveNames == {"id", "title"}

MaxAdded == 1

\* how many of the specifications of a schema were added to it
added(specs) ==
    Cardinality({k \in 1..Len(specs) :
                    \A j \in 1..Len(DEFAULT_CASE_SCHEMA) : specs[k] # DEFAULT_CASE_SCHEMA[j]})

(***************************************************************************)
(* Two validators made without a schema, one of them strict, and one       *)
(* record                                                                  *)
(***************************************************************************)
InitValidator ==
    LET h0 == (DEFAULT_REF :> DEFAULT_CASE_SCHEMA)
        c1 == CaseValidator(h0, "v1", NoSchema, FALSE)
        c2 == CaseValidator(c1.heap, "v2", NoSchema, TRUE)
    IN  /\ heap = c2.heap
        /\ validators = ("v1" :> c1.self) @@ ("v2" :> c2.self)
        /\ case \in Records
        /\ vret = NoCall
        /\ call = [op |-> "none"]
        /\ fingerprinter = [hash_bits |-> 64, ngram_size |-> 3, normalize |-> TRUE]
        /\ FingerprinterIdle
        /\ DetectorIdle
        /\ ReporterIdle
        /\ CoreIdle

Validate ==
    \E v \in ValidatorIds :
        /\ vret' = validate(deref(heap, validators[v]), case)
        /\ call' = [op |-> "validate", self |-> v]
        /\ UNCHANGED <<fpVars, repVars, coreVars, detVars, heap, validators, case>>

AddField ==
    \E v \in ValidatorIds, spec \in AddSpecs :
        /\ added(heap[validators[v].schema]) < MaxAdded
        /\ LET after == add_field(heap, validators[v], spec)
           IN  /\ heap' = after.heap
               /\ validators' = [validators EXCEPT ![v] = after.self]
        /\ vret' = NoCall
        /\ call' = [op |-> "add_field", self |-> v]
        /\ UNCHANGED <<fpVars, repVars, coreVars, detVars, case>>

RemoveField ==
    \E v \in ValidatorIds, name \in RemoveNames :
        /\ LET after == remove_field(heap, v, validators[v], name)
           IN  /\ heap' = after.heap
               /\ validators' = [validators EXCEPT ![v] = after.self]
        /\ vret' = NoCall
        /\ call' = [op |-> "remove_field", self |-> v]
        /\ UNCHANGED <<fpVars, repVars, coreVars, detVars, case>>

NextValidator == Validate \/ AddField \/ RemoveField

SpecValidator == InitValidator /\ [][NextValidator]_vars

(***************************************************************************)
(* Claims on CaseValidator                                                 *)
(***************************************************************************)
Result == vret.value
Validated == call.op = "validate" /\ vret.kind = "value"
SchemaOf(h, vs, v) == h[vs[v].schema]
IssuesFor(issues, name) == {i \in 1..Len(issues) : issues[i].field = name}
ErrorsFor(issues, name) == {i \in IssuesFor(issues, name) : issues[i].severity = ERROR}
HasNoValue(record, name) == dict_get(record, name, NoneValue).kind = "none"
InUnitInterval(r) == RatGe(r, <<0, 1>>) /\ RatGe(<<1, 1>>, r)

\* C6: every ValidationResult validate returns has valid true exactly when
\* none of its issues has severity Error, whatever the record, the schema
\* and the strict setting.
C6_ValidIffNoError ==
    Validated =>
        (Result.valid <=> \A i \in 1..Len(Result.issues) : Result.issues[i].severity # ERROR)

\* a result came back valid with a warning among its issues
C6_Witness ==
    /\ Validated
    /\ Result.valid
    /\ \E i \in 1..Len(Result.issues) : Result.issues[i].severity = WARNING

\* C7: when a required field of the schema has no value in the record,
\* validate returns valid = false, exactly one Error issue for that field,
\* its message containing "missing", and the score 0.0 for the field.
C7_MissingRequiredOneError ==
    Validated =>
        \A k \in 1..Len(SchemaOf(heap, validators, call.self)) :
            LET spec == SchemaOf(heap, validators, call.self)[k]
            IN  spec.required /\ HasNoValue(case, spec.name) =>
                    /\ ~Result.valid
                    /\ Cardinality(ErrorsFor(Result.issues, spec.name)) = 1
                    /\ \A i \in ErrorsFor(Result.issues, spec.name) :
                           \E w \in 1..Len(Result.issues[i].message) :
                               Result.issues[i].message[w] = "missing"
                    /\ DictGet(Result.field_scores, spec.name) = <<0, 1>>

\* C8: every per-field score and the completeness score of a result lie in
\* [0,1], for the empty record, for values of a wrong kind and for strings of
\* any length, the weights being positive (and finite, the arithmetic exact).
C8_ScoresInUnitInterval ==
    Validated =>
        /\ InUnitInterval(Result.completeness_score)
        /\ \A k \in 1..Len(Result.field_scores) :
               InUnitInterval(Result.field_scores[k][2])

\* a string twelve times the tenfold minimum was scored 1.0, another field
\* got partial credit, and the completeness is strictly inside the interval
C8_Witness ==
    /\ Validated
    /\ case["id"] = Str(S_LONG)
    /\ DictHas(Result.field_scores, "id")
    /\ DictGet(Result.field_scores, "id") = <<1, 1>>
    /\ RatGt(Result.completeness_score, <<0, 1>>)
    /\ RatGt(<<1, 1>>, Result.completeness_score)

\* what the rules of a field specification count as a defect of a value
Defect(spec, value) ==
    \/ value.kind = "none" /\ spec.required
    \/ value.kind # "none" /\ ~isinstance(value, spec.field_type)
    \/ /\ value.kind = "str"
       /\ \/ spec.min_length # 0 /\ Len(value.s) < spec.min_length
          \/ spec.max_length # 0 /\ Len(value.s) > spec.max_length
          \/ spec.pattern # "" /\ ~re_search(spec.pattern, value.s)
    \/ /\ value.kind # "none"
       /\ spec.custom_check # ""
       /\ custom_check_call(spec.custom_check, value) # <<>>

\* C9: validate has no error outcome: whatever the record holds, it returns
\* a result, every defect of a field of the schema is among the result's
\* issues, and the record and the schema are as they were before the call.
C9_ValidateNeverRaises ==
    [][call'.op = "validate" =>
           /\ vret'.kind = "value"
           /\ \A k \in 1..Len(SchemaOf(heap, validators, call'.self)) :
                  LET spec == SchemaOf(heap, validators, call'.self)[k]
                  IN  Defect(spec, dict_get(case, spec.name, NoneValue))
                          => IssuesFor(vret'.value.issues, spec.name) # {}
           /\ case' = case
           /\ heap' = heap
           /\ validators' = validators]_vars

\* the wholly malformed record and the empty one were validated, and issues
\* came back
C9_Witness ==
    /\ Validated
    /\ case \in {MalformedCase, EmptyCase}
    /\ Len(Result.issues) >= 3

\* C10: add_field and remove_field on one validator change that validator's
\* schema only: the schema of every other validator and the shared default
\* are as before, and so is what the others return for the record.
C10_SchemaPerInstance ==
    [][call'.op \in {"add_field", "remove_field"} =>
           /\ heap'[DEFAULT_REF] = DEFAULT_CASE_SCHEMA
           /\ \A w \in ValidatorIds \ {call'.self} :
                  /\ SchemaOf(heap', validators', w) = SchemaOf(heap, validators, w)
                  /\ validate(deref(heap', validators'[w]), case')
                         = validate(deref(heap, validators[w]), case)]_vars

\* one validator's schema was changed by a call and differs from the
\* default, which the other validator's schema still equals
C10_Witness ==
    /\ call.op \in {"add_field", "remove_field"}
    /\ SchemaOf(heap, validators, call.self) # DEFAULT_CASE_SCHEMA
    /\ \E w \in ValidatorIds \ {call.self} :
           SchemaOf(heap, validators, w) = DEFAULT_CASE_SCHEMA
    /\ heap[DEFAULT_REF] = DEFAULT_CASE_SCHEMA

\* what a validator of the same schema and the given strict setting returns
\* for the record
ResultUnder(strict) ==
    validate([schema |-> SchemaOf(heap, validators, call.self), strict |-> strict],
             case).value
IsTypeMismatch(issue) == issue.message[1] = "Expected"
Optional(name) ==
    \E k \in 1..Len(SchemaOf(heap, validators, call.self)) :
        /\ SchemaOf(heap, validators, call.self)[k].name = name
        /\ ~SchemaOf(heap, validators, call.self)[k].required
Errors(issues) == {i \in 1..Len(issues) : issues[i].severity = ERROR}
Warnings(issues) == {i \in 1..Len(issues) : issues[i].severity = WARNING}

SchemaNames ==
    {SchemaOf(heap, validators, call.self)[k].name :
         k \in 1..Len(SchemaOf(heap, validators, call.self))}
UnknownKeys == {k \in DOMAIN case : case[k].kind # "absent" /\ k \notin SchemaNames}
WithoutUnknown == [k \in DOMAIN case |-> IF k \in UnknownKeys THEN Absent ELSE case[k]]
ResultWithoutUnknown ==
    validate(deref(heap, validators[call.self]), WithoutUnknown).value
NotInfo(issue) == issue.severity # INFO

\* C13: fields of names the schema does not have change neither valid, the
\* completeness score, the field scores nor the Error and Warning issues of
\* the result; each of them whose name does not start with "_" adds exactly
\* one Info issue, and one whose name starts with "_" adds none.
C13_UnknownFieldsOnlyInform ==
    Validated =>
        LET without == ResultWithoutUnknown
        IN  /\ Result.valid = without.valid
            /\ Result.completeness_score = without.completeness_score
            /\ Result.field_scores = without.field_scores
            /\ SelectSeq(Result.issues, NotInfo) = without.issues
            /\ \A k \in UnknownKeys :
                   Cardinality({i \in IssuesFor(Result.issues, k) :
                                    Result.issues[i].severity = INFO})
                       = IF startswith_underscore(k) THEN 0 ELSE 1
            /\ \A i \in 1..Len(Result.issues) :
                   Result.issues[i].severity = INFO
                       => Result.issues[i].field \in UnknownKeys

\* the record validated has two fields the schema does not name, and one
\* whose name starts with "_"
C13_Witness ==
    /\ Validated
    /\ \E k \in UnknownKeys : startswith_underscore(k)
    /\ Cardinality({k \in UnknownKeys : ~startswith_underscore(k)}) >= 2

\* no two specifications of the schema have the same name
UniqueNames(specs) == \A i, j \in 1..Len(specs) : specs[i].name = specs[j].name => i = j

\* the first rule, in the order of the rules, that a value falls under
RuleOf(spec, value) ==
    IF value.kind = "none" THEN "missing"
    ELSE IF ~isinstance(value, spec.field_type) THEN "type mismatch"
    ELSE IF value.kind = "str" /\ spec.min_length # 0 /\ Len(value.s) < spec.min_length
    THEN "too short"
    ELSE IF value.kind = "str" /\ spec.max_length # 0 /\ Len(value.s) > spec.max_length
    THEN "too long"
    ELSE IF value.kind = "str" /\ spec.pattern # "" /\ ~re_search(spec.pattern, value.s)
    THEN "pattern mismatch"
    ELSE IF spec.custom_check # "" /\ custom_check_call(spec.custom_check, value) # <<>>
    THEN "failed custom check"
    ELSE "none"

\* the score the rule gives
RuleScore(rule, spec, value) ==
    CASE rule = "missing" -> <<0, 1>>
      [] rule = "type mismatch" -> <<2, 10>>
      [] rule = "too short" -> RatMin(Rat(Len(value.s), spec.min_length), <<8, 10>>)
      [] rule = "too long" -> <<9, 10>>
      [] rule = "pattern mismatch" -> <<7, 10>>
      [] rule = "failed custom check" -> <<8, 10>>
      [] OTHER -> IF value.kind = "str" /\ spec.min_length # 0
                  THEN RatMax(RatMin(Rat(Len(value.s), 10 * spec.min_length), <<1, 1>>),
                              <<9, 10>>)
                  ELSE <<1, 1>>

\* C25: for a schema of unique field names, validate applies to each field
\* only the first rule that matches, in the order missing, type mismatch,
\* too short, too long, pattern mismatch, failed custom check: the field has
\* at most one issue (none when no rule matches) and the score of that rule,
\* or the length bonus or 1.0 when no rule matches.
C25_FirstMatchingRuleOnly ==
    Validated /\ UniqueNames(SchemaOf(heap, validators, call.self)) =>
        \A k \in 1..Len(SchemaOf(heap, validators, call.self)) :
            LET spec  == SchemaOf(heap, validators, call.self)[k]
                value == dict_get(case, spec.name, NoneValue)
                rule  == RuleOf(spec, value)
            IN  /\ Cardinality(IssuesFor(Result.issues, spec.name)) <= 1
                /\ rule = "none" => IssuesFor(Result.issues, spec.name) = {}
                /\ rule \notin {"none", "missing"}
                       => Cardinality(IssuesFor(Result.issues, spec.name)) = 1
                /\ DictHas(Result.field_scores, spec.name)
                /\ RatEq(DictGet(Result.field_scores, spec.name),
                         RuleScore(rule, spec, value))

\* a string that is too long and fails the pattern of its field got the
\* too-long warning only, and the score 0.9
C25_Witness ==
    /\ Validated
    /\ UniqueNames(SchemaOf(heap, validators, call.self))
    /\ case["extra"] = Str(S_NO_DIGITS)
    /\ \E k \in 1..Len(SchemaOf(heap, validators, call.self)) :
           /\ SchemaOf(heap, validators, call.self)[k].name = "extra"
           /\ SchemaOf(heap, validators, call.self)[k].pattern = CITATION_PATTERN
           /\ SchemaOf(heap, validators, call.self)[k].max_length = 3
    /\ Cardinality(IssuesFor(Result.issues, "extra")) = 1
    /\ \A i \in IssuesFor(Result.issues, "extra") :
           Result.issues[i].severity = WARNING /\ Result.issues[i].message[2] = "long:"
    /\ DictGet(Result.field_scores, "extra") = <<9, 10>>

\* the kind of the value is among the kinds the field allows, text, integer,
\* boolean and ordered list being four kinds
KindAllowed(spec, value) == \E t \in 1..Len(spec.field_type) : spec.field_type[t] = value.kind

\* C26: a present value whose kind is not among the kinds its field allows
\* gets a type-mismatch issue, Error if the field is required or the
\* validator strict and Warning otherwise, and the score 0.2, a boolean in a
\* field of integers or text included; a value of an allowed kind gets no
\* type-mismatch issue.
C26_KindMismatchReported ==
    Validated /\ UniqueNames(SchemaOf(heap, validators, call.self)) =>
        \A k \in 1..Len(SchemaOf(heap, validators, call.self)) :
            LET spec  == SchemaOf(heap, validators, call.self)[k]
                value == dict_get(case, spec.name, NoneValue)
            IN  value.kind # "none" =>
                    IF KindAllowed(spec, value)
                    THEN \A i \in IssuesFor(Result.issues, spec.name) :
                             ~IsTypeMismatch(Result.issues[i])
                    ELSE /\ \E i \in IssuesFor(Result.issues, spec.name) :
                                /\ IsTypeMismatch(Result.issues[i])
                                /\ Result.issues[i].severity
                                      = IF spec.required \/ validators[call.self].strict
                                        THEN ERROR ELSE WARNING
                        /\ RatEq(DictGet(Result.field_scores, spec.name), <<2, 10>>)

(***************************************************************************)
(* Claims on add_batch, find_similar, stats and clear                      *)
(***************************************************************************)
NonNullIds(batch) ==
    {str_of(dict_get(batch[i], "id", NoneValue)) :
         i \in {j \in 1..Len(batch) : dict_get(batch[j], "id", NoneValue).kind # "none"}}

\* C14: add_batch indexes every record whose id is present and not null,
\* whatever the id (0, false and "" too), under str(id), and skips exactly
\* the records without an id or with a null one; afterwards total_indexed
\* is the number of distinct ids indexed so far.
C14_AddBatchIndexesNonNullIds ==
    [][\A batch \in Batches :
           AddBatchCall(batch) =>
               /\ DictKeySet(fingerprints') = DictKeySet(fingerprints) \cup NonNullIds(batch)
               /\ Len(fingerprints') = Cardinality(DictKeySet(fingerprints'))]_vars

FoundSimilar ==
    /\ query.op = "find_similar"
    /\ DictHas(fingerprints, query.case_id)

\* C17: for an indexed id and top_k >= 0, find_similar returns exactly
\* min(top_k, n-1) pairs for n indexed ids, each from the id to another
\* indexed id, no id twice, of the near method and with the similarity of
\* the two fingerprints, in non-increasing order of similarity; no id left
\* out is strictly more similar to the id than one that is returned.
C17_FindSimilarTopK ==
    FoundSimilar =>
        /\ ret.kind = "value"
        /\ Len(ret.value) = Min(query.top_k, Len(fingerprints) - 1)
        /\ \A i \in 1..Len(ret.value) :
               /\ ret.value[i].id_a = query.case_id
               /\ ret.value[i].id_b \in IndexedIds \ {query.case_id}
               /\ ret.value[i].method = "simhash"
               /\ ret.value[i].similarity = Sim(query.case_id, ret.value[i].id_b)
        /\ \A i, j \in 1..Len(ret.value) :
               /\ i # j => ret.value[i].id_b # ret.value[j].id_b
               /\ i < j => RatGe(ret.value[i].similarity, ret.value[j].similarity)
        /\ \A other \in IndexedIds \ {query.case_id} :
               (\A i \in 1..Len(ret.value) : ret.value[i].id_b # other)
                   => \A i \in 1..Len(ret.value) :
                          RatGe(ret.value[i].similarity, Sim(query.case_id, other))

\* of three indexed cases, the one more similar to the id is returned and
\* the one less similar, indexed before it, is left out
C17_Witness ==
    /\ FoundSimilar
    /\ query.top_k = 1
    /\ Len(fingerprints) = 3
    /\ ret.kind = "value"
    /\ Len(ret.value) = 1
    /\ \E k \in 1..Len(fingerprints) :
           /\ fingerprints[k][1] \notin {query.case_id, ret.value[1].id_b}
           /\ RatGt(ret.value[1].similarity, Sim(query.case_id, fingerprints[k][1]))
           /\ \E m \in 1..Len(fingerprints) :
                  fingerprints[m][1] = ret.value[1].id_b /\ k < m

\* C18: find_similar of an id that is not indexed raises the not-found
\* error, returns no pairs and leaves the index as it was.
C18_FindSimilarNotFound ==
    [][query'.op = "find_similar" /\ ~DictHas(fingerprints, query'.case_id) =>
           /\ ret' = Raised
           /\ UNCHANGED <<fingerprints, exact_hashes, cases>>]_vars

\* find_similar raised for an id that is not among the cases indexed
C18_Witness ==
    /\ query.op = "find_similar"
    /\ ~DictHas(fingerprints, query.case_id)
    /\ ret = Raised
    /\ Len(fingerprints) >= 2

IdsOf(pairs) == UNION {PairIds(pairs[i]) : i \in 1..Len(pairs)}

\* C19: after clear the detector is as a new one of the same threshold and
\* bit width: nothing is indexed, stats counts no case and no group of exact
\* duplicates, find_duplicates finds nothing; and a result names no case
\* but those indexed since.
C19_ClearIsFresh ==
    /\ query.op = "clear" =>
           /\ fingerprints = <<>> /\ exact_hashes = <<>> /\ cases = <<>>
           /\ stats(Detector).total_indexed = 0
           /\ stats(Detector).exact_duplicate_groups = 0
           /\ find_duplicates(Detector) = <<>>
    /\ (exact_hashes = <<>> /\ cases = <<>>) <=> fingerprints = <<>>
    /\ query.op \in {"find_duplicates", "find_similar"} /\ ret.kind = "value" =>
           IdsOf(ret.value) \subseteq DictKeySet(cases)
    /\ query.op = "stats" =>
           /\ ret.value.total_indexed = Cardinality(DictKeySet(cases))
           /\ ret.value.threshold = threshold
           /\ ret.value.hash_bits = fingerprinter.hash_bits

\* an index of three cases was cleared
C19_Witness ==
    /\ query.op = "clear"
    /\ query.dropped = 3
    /\ cases = <<>>

(***************************************************************************)
(* ContentFingerprinter.similarity on its own: of two fingerprints that    *)
(* are fingerprints of texts, or 0, one bit, all bits but the lowest, all  *)
(* bits, or a bit beyond the width                                         *)
(***************************************************************************)
FingerprintValues(self) ==
    {fingerprint(self, t) : t \in DetectorTexts}
        \cup {{}, {0}, {self.hash_bits - 1}, 1..(self.hash_bits - 1),
              0..(self.hash_bits - 1), {self.hash_bits}}

InitSimilarity ==
    /\ fingerprinter \in Fingerprinters
    /\ simArgs \in FingerprintValues(fingerprinter) \X FingerprintValues(fingerprinter)
    /\ simRet = NoCall
    /\ fpArg = <<>>
    /\ fpRet = NoCall
    /\ DetectorIdle
    /\ ValidatorIdle
    /\ ReporterIdle
    /\ CoreIdle

Similarity ==
    /\ simRet.kind = "none"
    /\ simRet' = Returned(similarity(fingerprinter, simArgs[1], simArgs[2]))
    /\ UNCHANGED <<fingerprinter, fpArg, fpRet, simArgs, detVars, valVars, repVars, coreVars>>

NextSimilarity == Similarity

SpecSimilarity == InitSimilarity /\ [][NextSimilarity]_vars

(***************************************************************************)
(* Claims on similarity                                                    *)
(***************************************************************************)
InRange(h) == h \subseteq 0..(fingerprinter.hash_bits - 1)

\* C15: a fingerprint of 0 stands for the empty document: similarity(0,0)
\* is 1.0, similarity(0,b) and similarity(b,0) are 0.0 for every b # 0
\* however few bits b has, and similarity(a,a) is 1.0 for every a.
C15_ZeroIsEmptyDocument ==
    simRet.kind = "value" =>
        /\ simArgs[1] = {} /\ simArgs[2] = {} => simRet.value = <<1, 1>>
        /\ (simArgs[1] = {}) # (simArgs[2] = {}) => simRet.value = <<0, 1>>
        /\ simArgs[1] = simArgs[2] => RatEq(simRet.value, <<1, 1>>)

\* 0 was compared with a fingerprint of one bit, in either order
C15_Witness ==
    /\ simRet.kind = "value"
    /\ {simArgs[1], simArgs[2]} = {{}, {0}}
    /\ simRet.value = <<0, 1>>

\* C16: for two fingerprints of at most hash_bits bits, as fingerprint
\* returns them, the bits they differ in are no more than hash_bits and the
\* similarity lies in [0,1].
C16_SimilarityInUnitInterval ==
    simRet.kind = "value" /\ InRange(simArgs[1]) /\ InRange(simArgs[2]) =>
        /\ differing_bits(simArgs[1], simArgs[2]) <= fingerprinter.hash_bits
        /\ RatGe(simRet.value, <<0, 1>>)
        /\ RatGe(<<1, 1>>, simRet.value)

\* two fingerprints, neither 0, that differ in every bit were compared
C16_Witness ==
    /\ simRet.kind = "value"
    /\ InRange(simArgs[1]) /\ InRange(simArgs[2])
    /\ simArgs[1] # {} /\ simArgs[2] # {}
    /\ (simArgs[1] \cup simArgs[2]) = 0..(fingerprinter.hash_bits - 1)
    /\ (simArgs[1] \cap simArgs[2]) = {}
    /\ RatEq(simRet.value, <<0, 1>>)

(***************************************************************************)
(* A detector to which records of pairwise distinct ids are added          *)
(***************************************************************************)
InitOrder ==
    /\ fingerprinter = [hash_bits |-> 128, ngram_size |-> 3, normalize |-> TRUE]
    /\ threshold \in Thresholds
    /\ fingerprints = <<>>
    /\ exact_hashes = <<>>
    /\ cases = <<>>
    /\ ret = NoCall
    /\ query = NoQuery
    /\ FingerprinterIdle
    /\ ValidatorIdle
    /\ ReporterIdle
    /\ CoreIdle

AddNew ==
    \E case_id \in Ids \ DictKeySet(cases), text \in TextValues : AddCall(case_id, text)

NextOrder == AddNew \/ FindDuplicates

SpecOrder == InitOrder /\ [][NextOrder]_vars

\* the orders the ids of a set can be added in
Orders(S) == {order \in SeqsUpTo(S, Cardinality(S)) :
                 Len(order) = Cardinality(S) /\ \A i, j \in 1..Len(order) :
                                                  order[i] = order[j] => i = j}

\* the detector after the records held were added in the given order
RECURSIVE AddedInOrder(_, _)
AddedInOrder(det, order) ==
    IF order = <<>> THEN det
    ELSE AddedInOrder(add(det, Head(order), DictGet(cases, Head(order))), Tail(order))

\* the pairs of a result without orientation and position
PairSet(pairs) ==
    {[ids |-> PairIds(pairs[i]), method |-> pairs[i].method,
      similarity |-> pairs[i].similarity] : i \in 1..Len(pairs)}

\* C29: for records of pairwise distinct ids, the unordered pairs
\* find_duplicates returns, each with its method and similarity, are the
\* same for every order the records were added in.
C29_AddOrderImmaterial ==
    query.op = "find_duplicates" =>
        \A order \in Orders(DictKeySet(cases)) :
            PairSet(find_duplicates(AddedInOrder(clear(Detector), order))) = PairSet(Pairs)

\* three records, an exact and a near pair among them, which another order
\* of adding returns in another orientation or position
C29_Witness ==
    /\ query.op = "find_duplicates"
    /\ Len(fingerprints) = 3
    /\ \E i, j \in 1..Len(Pairs) :
           Pairs[i].method = "exact_hash" /\ Pairs[j].method = "simhash"
    /\ \E order \in Orders(DictKeySet(cases)) :
           find_duplicates(AddedInOrder(clear(Detector), order)) # Pairs

(***************************************************************************)
(* A detector to which records of any text are added: a text, the empty    *)
(* text, None and a number                                                 *)
(***************************************************************************)
IndexTexts == {Str(<<>>), Str(<<"a", "B">>), NoneValue, IntValue(5)}
IndexIds == {"a", "b"}

InitIndex ==
    /\ fingerprinter = [hash_bits |-> 128, ngram_size |-> 3, normalize |-> TRUE]
    /\ threshold = <<85, 100>>
    /\ fingerprints = <<>>
    /\ exact_hashes = <<>>
    /\ cases = <<>>
    /\ ret = NoCall
    /\ query = NoQuery
    /\ FingerprinterIdle
    /\ ValidatorIdle
    /\ ReporterIdle
    /\ CoreIdle

AddRecord == \E case_id \in IndexIds, text \in IndexTexts : AddCall(case_id, text)

NextIndex == AddRecord \/ AddBatch \/ Clear \/ Stats

SpecIndex == InitIndex /\ [][NextIndex]_vars

\* C27: after any add, add_batch and clear the three maps agree: the
\* fingerprints and the retained records have the same ids, every id with
\* an exact digest has a fingerprint, and total_indexed of stats is the
\* number of those ids.
C27_MapsConsistent ==
    /\ DictKeySet(fingerprints) = DictKeySet(cases)
    /\ DictKeySet(exact_hashes) \subseteq DictKeySet(fingerprints)
    /\ stats(Detector).total_indexed = Cardinality(DictKeySet(cases))

(***************************************************************************)
(* reporter.py: QualityReporter._aggregate.  A QualityReport is modelled   *)
(* without generated_at, the time of the call.                             *)
(***************************************************************************)
QualityReport(total_cases, valid_cases, invalid_cases, avg_completeness, field_completeness, severity_counts, top_issues, completeness_distribution) ==
    [total_cases |-> total_cases, valid_cases |-> valid_cases,
     invalid_cases |-> invalid_cases, avg_completeness |-> avg_completeness,
     field_completeness |-> field_completeness, severity_counts |-> severity_counts,
     top_issues |-> top_issues, completeness_distribution |-> completeness_distribution]

\* the lists a loop in a loop goes through, one after the other
RECURSIVE flatten(_)
flatten(lists) == IF lists = <<>> THEN <<>> ELSE Head(lists) \o flatten(Tail(lists))

all_field_scores(rs) == flatten([k \in 1..Len(rs) |-> rs[k].field_scores])
all_issues(rs) == flatten([k \in 1..Len(rs) |-> rs[k].issues])

\* sum(1 for r in results if r.valid)
valid_count(rs) == Cardinality({k \in 1..Len(rs) : rs[k].valid})

\* sum(r.completeness_score for r in results)
RECURSIVE sum_completeness(_)
sum_completeness(rs) ==
    IF rs = <<>> THEN <<0, 1>>
    ELSE RatAdd(Head(rs).completeness_score, sum_completeness(Tail(rs)))

\* the distinct keys, in the order they are first met: the order of the
\* keys of a dict that is filled key by key
first_seen(keys) ==
    LET firsts == SelectSeq([k \in 1..Len(keys) |-> k],
                            LAMBDA k : \A j \in 1..(k - 1) : keys[j] # keys[k])
    IN  [i \in 1..Len(firsts) |-> keys[firsts[i]]]

RECURSIVE sum_scores(_)
sum_scores(items) ==
    IF items = <<>> THEN <<0, 1>> ELSE RatAdd(Head(items)[2], sum_scores(Tail(items)))

\* field_totals[field_name] += score, over the items
field_totals(items) ==
    LET names == first_seen([k \in 1..Len(items) |-> items[k][1]])
    IN  [i \in 1..Len(names) |->
            <<names[i], sum_scores(SelectSeq(items, LAMBDA it : it[1] = names[i]))>>]

\* counter[key] += 1, over the keys
count_keys(keys) ==
    LET names == first_seen(keys)
    IN  [i \in 1..Len(names) |->
            <<names[i], Cardinality({k \in 1..Len(keys) : keys[k] = names[i]})>>]

field_counts(items) == count_keys([k \in 1..Len(items) |-> items[k][1]])

field_completeness(rs) ==
    LET totals == field_totals(all_field_scores(rs))
        counts == field_counts(all_field_scores(rs))
    IN  [k \in 1..Len(totals) |->
            <<totals[k][1], RatDiv(totals[k][2], <<DictGet(counts, totals[k][1]), 1>>)>>]

severity_counts(rs) ==
    count_keys([k \in 1..Len(all_issues(rs)) |-> all_issues(rs)[k].severity])

\* the issues that are not Info, as (field, message, severity), counted
issue_groups(rs) ==
    LET counted == SelectSeq(all_issues(rs), LAMBDA i : i.severity # INFO)
    IN  count_keys([k \in 1..Len(counted) |->
                       <<counted[k].field, counted[k].message, counted[k].severity>>])

\* Counter.most_common: by count, the larger first, equal counts in the
\* order they were first met
RECURSIVE insert_by_count(_, _)
insert_by_count(sorted, item) ==
    IF sorted = <<>> THEN <<item>>
    ELSE IF Head(sorted)[2] >= item[2]
    THEN <<Head(sorted)>> \o insert_by_count(Tail(sorted), item)
    ELSE <<item>> \o sorted

RECURSIVE sort_by_count(_, _)
sort_by_count(items, acc) ==
    IF items = <<>> THEN acc
    ELSE sort_by_count(Tail(items), insert_by_count(acc, Head(items)))

most_common(counter, n) ==
    SubSeq(sort_by_count(counter, <<>>), 1, Min(n, Len(counter)))

top_issues(rs) ==
    LET common == most_common(issue_groups(rs), 20)
    IN  [k \in 1..Len(common) |->
            [field |-> common[k][1][1], message |-> common[k][1][2],
             severity |-> common[k][1][3], count |-> common[k][2]]]

\* the bucket, were a score on a bound counted below it
bucket_of_bound_below(completeness_score) ==
    LET pct == RatMul(completeness_score, <<100, 1>>)
    IN  IF RatGe(<<20, 1>>, pct) THEN "0-20%"
        ELSE IF RatGe(<<40, 1>>, pct) THEN "20-40%"
        ELSE IF RatGe(<<60, 1>>, pct) THEN "40-60%"
        ELSE IF RatGe(<<80, 1>>, pct) THEN "60-80%"
        ELSE "80-100%"

\* the bucket a completeness score is counted in
bucket_of(completeness_score) ==
    LET pct == RatMul(completeness_score, <<100, 1>>)
    IN  IF RatGt(<<20, 1>>, pct) THEN "0-20%"
        ELSE IF RatGt(<<40, 1>>, pct) THEN "20-40%"
        ELSE IF RatGt(<<60, 1>>, pct) THEN "40-60%"
        ELSE IF RatGt(<<80, 1>>, pct) THEN "60-80%"
        ELSE "80-100%"

EMPTY_BUCKETS ==
    <<<<"0-20%", 0>>, <<"20-40%", 0>>, <<"40-60%", 0>>, <<"60-80%", 0>>, <<"80-100%", 0>>>>

RECURSIVE fill_buckets(_, _)
fill_buckets(rs, buckets) ==
    IF rs = <<>> THEN buckets
    ELSE fill_buckets(Tail(rs),
             DictSet(buckets, bucket_of(Head(rs).completeness_score),
                     DictGet(buckets, bucket_of(Head(rs).completeness_score)) + 1))

_aggregate(rs) ==
    LET total == Len(rs)
    IN  IF total = 0
        THEN QualityReport(0, 0, 0, <<0, 1>>, <<>>, <<>>, <<>>, <<>>)
        ELSE QualityReport(total, valid_count(rs), total - valid_count(rs),
                           RatDiv(sum_completeness(rs), <<total, 1>>),
                           field_completeness(rs), severity_counts(rs), top_issues(rs),
                           fill_buckets(rs, EMPTY_BUCKETS))

\* CaseValidator.validate_batch
validate_batch(self, records) == [k \in 1..Len(records) |-> validate(self, records[k]).value]

\* QualityReporter.analyze
analyze(self, records) == _aggregate(validate_batch(self.validator, records))

analyze_results(rs) == _aggregate(rs)

(***************************************************************************)
(* A QualityReporter and a list of results: those a default validator      *)
(* gives for three records, and results of given completeness              *)
(***************************************************************************)
MaxResults == 3

ReportCases == <<EmptyCase, FullCase, MalformedCase, [FullCase EXCEPT !["text"] = Absent]>>

ResultOf(completeness_score) ==
    ValidationResult(Str(<<"r">>), TRUE, <<>>, completeness_score, <<>>)

ResultSamples ==
    LET validated ==
            validate_batch([schema |-> DEFAULT_CASE_SCHEMA, strict |-> FALSE], ReportCases)
    IN  {validated[k] : k \in 1..Len(validated)}
            \cup {ResultOf(c) : c \in {<<199, 1000>>, <<1, 5>>, <<2, 5>>, <<3, 5>>,
                                       <<4, 5>>, <<1, 1>>}}

InitReporter ==
    /\ results \in SeqsUpTo(ResultSamples, MaxResults)
    /\ report = NoCall
    /\ files = <<>>
    /\ fingerprinter = [hash_bits |-> 64, ngram_size |-> 3, normalize |-> TRUE]
    /\ FingerprinterIdle
    /\ DetectorIdle
    /\ ValidatorIdle
    /\ CoreIdle

AnalyzeResults ==
    /\ report.kind = "none"
    /\ report' = Returned(analyze_results(results))
    /\ UNCHANGED <<fpVars, detVars, valVars, coreVars, results, files>>

NextReporter == AnalyzeResults

SpecReporter == InitReporter /\ [][NextReporter]_vars

(***************************************************************************)
(* Claims on QualityReporter                                               *)
(***************************************************************************)
Report == report.value
Lower(label) ==
    CASE label = "0-20%" -> 0 [] label = "20-40%" -> 20 [] label = "40-60%" -> 40
      [] label = "60-80%" -> 60 [] label = "80-100%" -> 80
InBucket(label, completeness_score) ==
    /\ RatGe(RatMul(completeness_score, <<100, 1>>), <<Lower(label), 1>>)
    /\ \/ RatGt(<<Lower(label) + 20, 1>>, RatMul(completeness_score, <<100, 1>>))
       \/ label = "80-100%" /\ RatEq(completeness_score, <<1, 1>>)
RECURSIVE SumCounts(_)
SumCounts(d) == IF d = <<>> THEN 0 ELSE Head(d)[2] + SumCounts(Tail(d))

\* C20: every result of the list is counted in exactly one completeness
\* bucket, the one of [0,20), [20,40), [40,60), [60,80), [80,100] percent
\* its completeness is in, so the counts of the buckets sum to total_cases.
C20_BucketsPartitionResults ==
    report.kind = "value" =>
        /\ Report.total_cases = Len(results)
        /\ SumCounts(Report.completeness_distribution) = Report.total_cases
        /\ \A k \in 1..Len(Report.completeness_distribution) :
               Report.completeness_distribution[k][2]
                   = Cardinality({i \in 1..Len(results) :
                         InBucket(Report.completeness_distribution[k][1],
                                  results[i].completeness_score)})
        /\ \A i \in 1..Len(results) :
               \E k \in 1..Len(Report.completeness_distribution) :
                   InBucket(Report.completeness_distribution[k][1],
                            results[i].completeness_score)

\* three results were reported, one of a completeness of exactly 20 percent
\* and one of exactly 100
C20_Witness ==
    /\ report.kind = "value"
    /\ Len(results) = 3
    /\ \E i, j \in 1..Len(results) :
           /\ results[i].completeness_score = <<1, 5>>
           /\ results[j].completeness_score = <<1, 1>>
    /\ DictGet(Report.completeness_distribution, "20-40%") >= 1
    /\ DictGet(Report.completeness_distribution, "80-100%") >= 1

BucketLabels == <<"0-20%", "20-40%", "40-60%", "60-80%", "80-100%">>

\* C21: every report, the zeroed report for no results included, carries
\* exactly the five fixed buckets, a bucket without result having count 0.
C21_FiveFixedBuckets ==
    report.kind = "value" =>
        /\ Len(Report.completeness_distribution) = Len(BucketLabels)
        /\ \A k \in 1..Len(BucketLabels) :
               /\ Report.completeness_distribution[k][1] = BucketLabels[k]
               /\ Report.completeness_distribution[k][2] = 0
                      <=> ~\E i \in 1..Len(results) :
                              InBucket(BucketLabels[k], results[i].completeness_score)

(***************************************************************************)
(* reporter.py: generate_quality_report.  A file of the directory is what  *)
(* opening and json.load make of it: open fails (OSError), its bytes are   *)
(* not UTF-8 (UnicodeDecodeError), its text is not JSON (JSONDecodeError), *)
(* or it holds a JSON value.  No output path is given.                     *)
(***************************************************************************)
DictValue(record) == [kind |-> "dict", record |-> record]

JsonFile(state, value) == [state |-> state, value |-> value]

RaisedWith(exception) == [kind |-> "raise", exception |-> exception]

\* with open(json_file, encoding="utf-8") as f: json.load(f)
json_load(file) ==
    CASE file.state = "unreadable" -> RaisedWith("OSError")
      [] file.state = "not_utf8"   -> RaisedWith("UnicodeDecodeError")
      [] file.state = "malformed"  -> RaisedWith("JSONDecodeError")
      [] OTHER                     -> Returned(file.value)

\* the loop over cases_dir.glob("*.json"): JSONDecodeError and OSError are
\* caught and the file left out, any other exception ends the call
RECURSIVE load_cases(_, _)
load_cases(json_files, loaded_cases) ==
    IF json_files = <<>> THEN Returned(loaded_cases)
    ELSE LET loaded == json_load(Head(json_files))
         IN  IF loaded.kind = "value"
             THEN load_cases(Tail(json_files), Append(loaded_cases, loaded.value))
             ELSE IF loaded.exception \in {"JSONDecodeError", "OSError"}
             THEN load_cases(Tail(json_files), loaded_cases)
             ELSE loaded

\* validate starts with case.get("id", ...): AttributeError unless a dict
validate_loaded(self, loaded) ==
    IF loaded.kind = "dict" THEN validate(self, loaded.record)
    ELSE RaisedWith("AttributeError")

\* reporter.analyze(cases) for cases as loaded
analyze_loaded(self, loaded_cases) ==
    LET validated == [k \in 1..Len(loaded_cases) |->
                         validate_loaded(self.validator, loaded_cases[k])]
    IN  IF \E k \in 1..Len(loaded_cases) : validated[k].kind # "value"
        THEN validated[CHOOSE k \in 1..Len(loaded_cases) :
                           /\ validated[k].kind # "value"
                           /\ \A j \in 1..(k - 1) : validated[j].kind = "value"]
        ELSE Returned(_aggregate([k \in 1..Len(loaded_cases) |-> validated[k].value]))

generate_quality_report(cases_dir) ==
    LET loaded_cases == load_cases(cases_dir, <<>>)
        reporter     == [validator |-> [schema |-> DEFAULT_CASE_SCHEMA, strict |-> FALSE]]
    IN  IF loaded_cases.kind # "value" THEN loaded_cases
        ELSE analyze_loaded(reporter, loaded_cases.value)

MaxFiles == 3

Files ==
    {JsonFile("unreadable", NoneValue), JsonFile("not_utf8", NoneValue),
     JsonFile("malformed", NoneValue),
     JsonFile("json", DictValue(FullCase)), JsonFile("json", DictValue(EmptyCase)),
     JsonFile("json", ListValue(<<>>)), JsonFile("json", IntValue(3)),
     JsonFile("json", NoneValue)}

InitDirectory ==
    /\ files \in SeqsUpTo(Files, MaxFiles)
    /\ results = <<>>
    /\ report = NoCall
    /\ fingerprinter = [hash_bits |-> 64, ngram_size |-> 3, normalize |-> TRUE]
    /\ FingerprinterIdle
    /\ DetectorIdle
    /\ ValidatorIdle
    /\ CoreIdle

GenerateQualityReport ==
    /\ report.kind = "none"
    /\ report' = generate_quality_report(files)
    /\ UNCHANGED <<fpVars, detVars, valVars, coreVars, results, files>>

NextDirectory == GenerateQualityReport

SpecDirectory == InitDirectory /\ [][NextDirectory]_vars

\* a file that loads as a case record
LoadsAsCase(file) == file.state = "json" /\ file.value.kind = "dict"

\* C22: generate_quality_report never aborts on a file's content: a file
\* that is unreadable, is not JSON or holds a JSON value that is no mapping
\* is skipped, and total_cases is the number of files that loaded as a case.
C22_CorruptFilesSkipped ==
    report.kind # "none" =>
        /\ report.kind = "value"
        /\ report.value.total_cases
              = Cardinality({k \in 1..Len(files) : LoadsAsCase(files[k])})

(***************************************************************************)
(* storage.py: Storage.  Of the files Storage writes only the progress is  *)
(* modelled, by the dict kept in memory; "created" and "updated", the      *)
(* times of the calls, are left out.  What the file system does to a write *)
(* is an input of the call: nothing ("ok"), the write of the case fails    *)
(* ("write_fails"), or the write of progress.json fails ("progress_fails").*)
(***************************************************************************)
\* Storage._load_progress where there is no progress file
_load_progress == [fetched_ids |-> <<>>, total_count |-> 0]

\* Storage(data_dir) for a new data_dir
NewStorage == [progress |-> _load_progress]

\* case_id in self.progress["fetched_ids"]
is_fetched(self, case_id) ==
    \E k \in 1..Len(self.progress.fetched_ids) : self.progress.fetched_ids[k] = case_id

\* save_case, were the id appended without looking for it in fetched_ids
save_case_appending(self, record, io) ==
    LET case_id == dict_get(record, "id", NoneValue)
        fetched == Append(self.progress.fetched_ids, case_id)
    IN  IF ~truthy(case_id) \/ io = "write_fails" THEN [self |-> self, value |-> FALSE]
        ELSE [self  |-> [self EXCEPT !.progress =
                            [fetched_ids |-> fetched, total_count |-> Len(fetched)]],
              value |-> io # "progress_fails"]

\* Storage.save_case: the Storage after the call and the value returned
save_case(self, record, io) ==
    LET case_id == dict_get(record, "id", NoneValue)
        fetched == Append(self.progress.fetched_ids, case_id)
    IN  IF ~truthy(case_id) THEN [self |-> self, value |-> FALSE]
        ELSE IF io = "write_fails" THEN [self |-> self, value |-> FALSE]
        ELSE IF ~is_fetched(self, case_id)
        THEN [self  |-> [self EXCEPT !.progress =
                            [fetched_ids |-> fetched, total_count |-> Len(fetched)]],
              value |-> io # "progress_fails"]
        ELSE [self |-> self, value |-> TRUE]

\* the records save_case is called with, by their id, and the outcomes of
\* the writes
StorageIds ==
    {Str(<<"a">>), Str(<<"b">>), IntValue(7), Str(<<>>), IntValue(0), NoneValue, Absent}

StorageCases == {[EmptyCase EXCEPT !["id"] = v] : v \in StorageIds}

IoOutcomes == {"ok", "write_fails", "progress_fails"}

InitStorage ==
    /\ storage = NewStorage
    /\ scraper = [daily_limit |-> 0, request_count |-> 0, adapter |-> [calls |-> 0]]
    /\ coreCall = NoQuery
    /\ coreRet = NoCall
    /\ fingerprinter = [hash_bits |-> 64, ngram_size |-> 3, normalize |-> TRUE]
    /\ FingerprinterIdle
    /\ DetectorIdle
    /\ ValidatorIdle
    /\ ReporterIdle

SaveCase ==
    \E record \in StorageCases, io \in IoOutcomes :
        LET saved == save_case(storage, record, io)
        IN  /\ storage' = saved.self
            /\ coreCall' = [op |-> "save_case", record |-> record, io |-> io]
            /\ coreRet' = Returned(saved.value)
            /\ UNCHANGED <<fpVars, detVars, valVars, repVars, scraper>>

NextStorage == SaveCase

SpecStorage == InitStorage /\ [][NextStorage]_vars

(***************************************************************************)
(* Claims on Storage                                                       *)
(***************************************************************************)
CaseId(record) == dict_get(record, "id", NoneValue)
NoRepeats(seq) == \A i, j \in 1..Len(seq) : seq[i] = seq[j] => i = j
IsPrefix(s, t) == Len(s) <= Len(t) /\ SubSeq(t, 1, Len(s)) = s

\* C24: with every save_case, fetched_ids keeps the ids it had, holds no
\* id twice and has total_count as its length; a save that returned true
\* has its id in fetched_ids, and a save of a record without id returns
\* false and leaves the progress as it was.
C24_ProgressTracksSaves ==
    [][/\ IsPrefix(storage.progress.fetched_ids, storage'.progress.fetched_ids)
       /\ NoRepeats(storage'.progress.fetched_ids)
       /\ storage'.progress.total_count = Len(storage'.progress.fetched_ids)
       /\ coreCall'.op = "save_case" /\ coreRet'.value
            => is_fetched(storage', CaseId(coreCall'.record))
       /\ coreCall'.op = "save_case" /\ ~truthy(CaseId(coreCall'.record))
            => ~coreRet'.value /\ storage' = storage]_vars

\* of two ids saved, the one saved first was saved once more
C24_Witness ==
    /\ coreCall.op = "save_case"
    /\ Len(storage.progress.fetched_ids) = 2
    /\ storage.progress.total_count = 2
    /\ CaseId(coreCall.record) = storage.progress.fetched_ids[1]
    /\ coreRet = Returned(TRUE)

(***************************************************************************)
(* scraper.py: Scraper.  The adapter is any BaseAdapter: what it answers   *)
(* to a call (a value, or an exception such as the ConnectionError of a    *)
(* request that failed) is an input of the call, and adapter.calls counts  *)
(* the calls it received.  HumanTiming.wait only sleeps.                   *)
(***************************************************************************)
DEFAULT_DAILY_LIMIT == 500

\* Scraper(adapter, data_dir, daily_limit), None written 0: the storage is
\* the Storage of data_dir
NewScraper(daily_limit) ==
    [daily_limit   |-> IF daily_limit # 0 THEN daily_limit ELSE DEFAULT_DAILY_LIMIT,
     request_count |-> 0,
     adapter       |-> [calls |-> 0]]

\* Scraper._check_limit: TRUE where it raises RuntimeError
_check_limit(self) == self.request_count >= self.daily_limit

DailyLimitReached == RaisedWith("RuntimeError")

\* the adapter is called and answers: request_count += 1 is reached only
\* if it did not raise
adapter_call(self, answer) ==
    LET called == [self EXCEPT !.adapter.calls = @ + 1]
    IN  IF answer.kind = "raise" THEN [self |-> called, ret |-> answer]
        ELSE [self |-> [called EXCEPT !.request_count = @ + 1], ret |-> answer]

\* Scraper.search
search(self, answer) ==
    IF _check_limit(self) THEN [self |-> self, ret |-> DailyLimitReached]
    ELSE adapter_call(self, answer)

\* Scraper.fetch
fetch(self, answer) ==
    IF _check_limit(self) THEN [self |-> self, ret |-> DailyLimitReached]
    ELSE adapter_call(self, answer)

\* Scraper.enumerate, None written 0 for year
enumerate(self, year, answer) ==
    IF _check_limit(self) THEN [self |-> self, ret |-> DailyLimitReached]
    ELSE IF year = 0 THEN [self |-> self, ret |-> RaisedWith("ValueError")]
    ELSE adapter_call(self, answer)

\* if case: a dict that is not empty
case_truthy(value) == value.kind = "dict" /\ keys_of(value.record) # <<>>

\* Scraper.fetch_and_save on the scraper and its storage
fetch_and_save(st, case_id, skip_existing, answer, io) ==
    IF skip_existing /\ is_fetched(st.storage, case_id)
    THEN [scraper |-> st.scraper, storage |-> st.storage, ret |-> Returned(FALSE)]
    ELSE LET fetched == fetch(st.scraper, answer)
             saved   == save_case(st.storage, fetched.ret.value.record, io)
         IN  IF fetched.ret.kind = "raise"
             THEN [scraper |-> fetched.self, storage |-> st.storage, ret |-> fetched.ret]
             ELSE IF case_truthy(fetched.ret.value)
             THEN [scraper |-> fetched.self, storage |-> saved.self,
                   ret |-> Returned(saved.value)]
             ELSE [scraper |-> fetched.self, storage |-> st.storage,
                   ret |-> Returned(FALSE)]

\* the loop of Scraper.batch_fetch, None written 0 for limit; answers holds
\* for each id what the adapter and the file system do when it is fetched
RECURSIVE batch_fetch_from(_, _, _, _, _, _)
batch_fetch_from(st, case_ids, limit, skip_existing, answers, fetched) ==
    IF case_ids = <<>> \/ (limit # 0 /\ fetched >= limit)
    THEN [scraper |-> st.scraper, storage |-> st.storage, ret |-> Returned(fetched)]
    ELSE LET one == fetch_and_save(st, Head(case_ids), skip_existing,
                                   Head(answers).answer, Head(answers).io)
         IN  IF one.ret.kind = "raise" THEN one
             ELSE batch_fetch_from(one, Tail(case_ids), limit, skip_existing, Tail(answers),
                                   IF one.ret.value THEN fetched + 1 ELSE fetched)

batch_fetch(st, case_ids, limit, skip_existing, answers) ==
    batch_fetch_from(st, case_ids, limit, skip_existing, answers, 0)

(***************************************************************************)
(* A Scraper of a small daily limit, and the calls on it                   *)
(***************************************************************************)
MaxLimit == 2
MaxCalls == 4
MaxBatchIds == 2

CaseIds == {Str(<<"a">>), Str(<<"b">>)}

ConnectionFailed == RaisedWith("ConnectionError")

\* what adapter.search and adapter.enumerate_by_year answer
ListAnswers == {ConnectionFailed, Returned(ListValue(<<>>))}

\* what adapter.fetch_case(case_id) answers: the case, a case without id,
\* None, or an exception
CaseAnswers(case_id) ==
    {ConnectionFailed, Returned(NoneValue),
     Returned(DictValue([EmptyCase EXCEPT !["id"] = case_id])),
     Returned(DictValue([EmptyCase EXCEPT !["title"] = Str(S_TITLE)]))}

Scraping == [scraper |-> scraper, storage |-> storage]

Answered(after) ==
    /\ scraper' = after.scraper
    /\ storage' = after.storage
    /\ coreRet' = after.ret

InitScraper ==
    /\ scraper \in {NewScraper(daily_limit) : daily_limit \in 0..MaxLimit}
    /\ storage = NewStorage
    /\ coreCall = NoQuery
    /\ coreRet = NoCall
    /\ fingerprinter = [hash_bits |-> 64, ngram_size |-> 3, normalize |-> TRUE]
    /\ FingerprinterIdle
    /\ DetectorIdle
    /\ ValidatorIdle
    /\ ReporterIdle

Search ==
    /\ scraper.adapter.calls < MaxCalls
    /\ \E answer \in ListAnswers :
           LET after == search(scraper, answer)
           IN  /\ scraper' = after.self
               /\ coreRet' = after.ret
               /\ coreCall' = [op |-> "search"]
    /\ UNCHANGED <<fpVars, detVars, valVars, repVars, storage>>

Fetch ==
    /\ scraper.adapter.calls < MaxCalls
    /\ \E case_id \in CaseIds : \E answer \in CaseAnswers(case_id) :
           LET after == fetch(scraper, answer)
           IN  /\ scraper' = after.self
               /\ coreRet' = after.ret
               /\ coreCall' = [op |-> "fetch"]
    /\ UNCHANGED <<fpVars, detVars, valVars, repVars, storage>>

Enumerate ==
    /\ scraper.adapter.calls < MaxCalls
    /\ \E year \in {0, 2024}, answer \in ListAnswers :
           LET after == enumerate(scraper, year, answer)
           IN  /\ scraper' = after.self
               /\ coreRet' = after.ret
               /\ coreCall' = [op |-> "enumerate"]
    /\ UNCHANGED <<fpVars, detVars, valVars, repVars, storage>>

FetchAndSave ==
    /\ scraper.adapter.calls < MaxCalls
    /\ \E case_id \in CaseIds, skip_existing \in BOOLEAN, io \in IoOutcomes :
           \E answer \in CaseAnswers(case_id) :
               /\ Answered(fetch_and_save(Scraping, case_id, skip_existing, answer, io))
               /\ coreCall' = [op |-> "fetch_and_save"]
    /\ UNCHANGED <<fpVars, detVars, valVars, repVars>>

\* one answer of the adapter and of the file system for each id of the batch
BatchAnswers(case_ids) ==
    {answers \in SeqsUpTo(UNION {[answer : CaseAnswers(c), io : {"ok", "write_fails"}] :
                                    c \in CaseIds}, MaxBatchIds) :
        /\ Len(answers) = Len(case_ids)
        /\ \A k \in 1..Len(case_ids) : answers[k].answer \in CaseAnswers(case_ids[k])}

BatchFetch ==
    /\ \E case_ids \in SeqsUpTo(CaseIds, MaxBatchIds), limit \in {0, 1},
           skip_existing \in BOOLEAN :
           /\ scraper.adapter.calls + Len(case_ids) <= MaxCalls
           /\ \E answers \in BatchAnswers(case_ids) :
                  Answered(batch_fetch(Scraping, case_ids, limit, skip_existing, answers))
           /\ coreCall' = [op |-> "batch_fetch"]
    /\ UNCHANGED <<fpVars, detVars, valVars, repVars>>

NextScraper == Search \/ Fetch \/ Enumerate \/ FetchAndSave \/ BatchFetch

SpecScraper == InitScraper /\ [][NextScraper]_vars

(***************************************************************************)
(* Claims on Scraper                                                       *)
(***************************************************************************)
\* C23: a Scraper never sends its adapter more requests than its daily
\* limit, whether the adapter's calls succeed or fail: request_count and
\* the number of calls the adapter received stay within the limit, and
\* with that many requests made, search, fetch and enumerate fail with the
\* daily-limit error and leave the scraper and its adapter as they were.
C23_RequestsWithinDailyLimit ==
    [][/\ scraper'.request_count <= scraper'.daily_limit
       /\ scraper'.adapter.calls <= scraper'.daily_limit
       /\ scraper.adapter.calls >= scraper.daily_limit
              /\ coreCall'.op \in {"search", "fetch", "enumerate"}
            => coreRet' = DailyLimitReached /\ scraper' = scraper]_vars

====
